---- MODULE Spec2Model ----
(***************************************************************************)
(* aislib: the multipart reassembler (MultipartMessageManager), the NMEA   *)
(* payload armor it decodes when a group completes, and the parser facade  *)
(* (AISParser) in front of it.                                             *)
(*                                                                         *)
(* Strings are sequences of character codes (std::string), bit buffers     *)
(* are sequences of 0/1 (BitVector), the steady clock is the integer now.  *)
(***************************************************************************)
EXTENDS Integers, Sequences, FiniteSets, TLC

VARIABLES messages,        \* messages_ : MessageKey -> MessageInfo
          timeout_,        \* timeout_
          max_messages_,   \* max_messages_
          node_count,      \* what messages_.size() returns
          now,             \* std::chrono::steady_clock::now()
          ub,              \* the last call executed undefined behaviour
          last,            \* the last call: operation, arguments, outcome
          owner,           \* history: the (message_id, channel) that created each group
          accepted_at,     \* history: when each group last accepted a new fragment
          calls,           \* history: how many add_fragment calls were made
          scenario,        \* the fragments of one group under submission (SpecGroup)
          last_error       \* AISParser::last_error_.type

vars == <<messages, timeout_, max_messages_, node_count, now, ub, last,
          owner, accepted_at, calls, scenario, last_error>>

-----------------------------------------------------------------------------
(* Bounds of the model *)

MaxFrag == 3          \* fragment_count and fragment_number range over 0..MaxFrag
MaxTime == 2          \* the clock runs over 0..MaxTime
MaxTimeout == 1       \* set_timeout takes 0..MaxTimeout
MaxGroups == 2        \* set_max_messages takes 0..MaxGroups
MaxCalls == 2         \* add_fragment is called at most MaxCalls times

-----------------------------------------------------------------------------
(* Characters and strings *)

CH_A == 65            \* 'A'
CH_B == 66            \* 'B'
CH_C == 67            \* 'C', a channel the reassembler rejects
SEQ == <<115, 101, 113>>     \* "seq"
ID_1 == <<49>>               \* "1"
ID_SEQ2 == <<115, 101, 113, 50>>   \* "seq2"
P_1 == <<49>>                \* payload "1"  : 000001
P_w == <<119>>               \* payload "w"  : 111111
P_X == <<88>>                \* payload "X"  : not an armor character
P_EMPTY == <<>>              \* payload ""

MessageIds == {<<>>, ID_1, ID_SEQ2}
Channels == {CH_A, CH_B, CH_C}
Payloads == {P_1, P_X}
FillBits == {0, 6}

\* std::to_string of a non-negative integer
RECURSIVE to_string(_)
to_string(n) ==
    IF n < 10 THEN <<48 + n>> ELSE to_string(n \div 10) \o <<48 + (n % 10)>>

\* std::string operator< : lexicographic order on character codes
RECURSIVE StringLess(_, _)
StringLess(a, b) ==
    IF b = <<>> THEN FALSE
    ELSE IF a = <<>> THEN TRUE
    ELSE IF Head(a) # Head(b) THEN Head(a) < Head(b)
    ELSE StringLess(Tail(a), Tail(b))

\* MessageKey::operator<
KeyLess(k1, k2) ==
    IF k1.message_id # k2.message_id
    THEN StringLess(k1.message_id, k2.message_id)
    ELSE k1.channel < k2.channel

\* The keys of a std::map in iteration order (begin() .. end())
RECURSIVE KeysInOrder(_)
KeysInOrder(S) ==
    IF S = {} THEN <<>>
    ELSE LET first == CHOOSE k \in S : \A j \in S \ {k} : KeyLess(k, j)
         IN  <<first>> \o KeysInOrder(S \ {first})

\* A map with one key removed (std::map::erase)
Erase(msgs, k) == [j \in (DOMAIN msgs) \ {k} |-> msgs[j]]

\* messages_.size() of a well-formed map
Size(msgs) == Cardinality(DOMAIN msgs)

-----------------------------------------------------------------------------
(* BitVector(const std::string&): the payload armor decoder *)

\* the 6 bits of value v, most significant first
Bits6(v) == [i \in 1..6 |-> (v \div (2 ^ (6 - i))) % 2]

\* one armor character to its 6-bit value; -1 where the constructor throws
ArmorValue(c) ==
    IF c >= 48 /\ c <= 87 THEN c - 48
    ELSE IF c >= 96 /\ c <= 119 THEN c - 96 + 40
    ELSE -1

\* [ok, bits]: ok is FALSE where the constructor throws invalid_argument
BitVectorOf(payload) ==
    IF \E i \in 1..Len(payload) : ArmorValue(payload[i]) = -1
    THEN [ok |-> FALSE, bits |-> <<>>]
    ELSE [ok |-> TRUE,
          bits |-> [k \in 1..(6 * Len(payload)) |->
                      Bits6(ArmorValue(payload[((k - 1) \div 6) + 1]))[((k - 1) % 6) + 1]]]

-----------------------------------------------------------------------------
(* MultipartMessageManager *)

\* what a call returns: nothing, a bit buffer, an exception, or no return at
\* all because the process died
RetNone == [kind |-> "none", bits |-> <<>>]
RetBits(b) == [kind |-> "bits", bits |-> b]
RetThrow == [kind |-> "throw", bits |-> <<>>]
RetCrash == [kind |-> "crash", bits |-> <<>>]

EmptyMap == [k \in {} |-> 0]

\* "seq" + std::to_string(fragment_count) when message_id is empty
effective_message_id(message_id, fragment_count) ==
    IF message_id = <<>> THEN SEQ \o to_string(fragment_count) ELSE message_id

MessageKey(message_id, fragment_count, channel) ==
    [message_id |-> effective_message_id(message_id, fragment_count),
     channel |-> channel]

\* the checks at the head of add_fragment with the fill_bits check left out
ValidFragmentNoFillCheck(fragment_number, fragment_count, channel, fill_bits) ==
    /\ ~(fragment_number < 1 \/ fragment_number > fragment_count)
    /\ ~(channel # CH_A /\ channel # CH_B)

\* the three checks at the head of add_fragment
ValidFragment(fragment_number, fragment_count, channel, fill_bits) ==
    /\ ~(fragment_number < 1 \/ fragment_number > fragment_count)
    /\ ~(channel # CH_A /\ channel # CH_B)
    /\ ~(fill_bits > 5)

\* a value-initialised Fragment
EmptyFragment == [payload |-> <<>>, fill_bits |-> 0, received |-> FALSE]

\* the MessageInfo built for a key that is not in the map
NewInfo(fragment_count, t) ==
    [fragments |-> [i \in 1..fragment_count |-> EmptyFragment],
     last_update |-> t,
     received_count |-> 0]

\* the loop that finds oldest_it: the first key in map order whose
\* last_update is strictly below everything seen so far
RECURSIVE ScanOldest(_, _, _)
ScanOldest(msgs, keys, oldest) ==
    IF keys = <<>> THEN oldest
    ELSE ScanOldest(msgs, Tail(keys),
                    IF msgs[Head(keys)].last_update < msgs[oldest].last_update
                    THEN Head(keys) ELSE oldest)

OldestKey(msgs) ==
    LET keys == KeysInOrder(DOMAIN msgs)
    IN  ScanOldest(msgs, keys, Head(keys))

\* combine_fragments that trims the fill bits of every slot, not only of the
\* last one
RECURSIVE CombineFromTrimsEverySlot(_, _)
CombineFromTrimsEverySlot(fragments, i) ==
    IF i > Len(fragments) THEN [ok |-> TRUE, bits |-> <<>>]
    ELSE LET fragment_bits == BitVectorOf(fragments[i].payload)
             rest == CombineFromTrimsEverySlot(fragments, i + 1)
         IN  IF ~fragment_bits.ok \/ ~rest.ok THEN [ok |-> FALSE, bits |-> <<>>]
             ELSE IF Len(fragment_bits.bits) < fragments[i].fill_bits
             THEN [ok |-> FALSE, bits |-> <<>>]
             ELSE [ok |-> TRUE,
                   bits |-> SubSeq(fragment_bits.bits, 1,
                              Len(fragment_bits.bits) - fragments[i].fill_bits)
                            \o rest.bits]

\* combine_fragments: [ok, bits]; ok is FALSE where it throws (a payload the
\* armor decoder rejects, or a last slot with fewer bits than its fill_bits,
\* where bits_to_copy wraps around and get_bit throws out_of_range)
RECURSIVE CombineFrom(_, _)
CombineFrom(fragments, i) ==
    IF i > Len(fragments) THEN [ok |-> TRUE, bits |-> <<>>]
    ELSE LET fragment_bits == BitVectorOf(fragments[i].payload)
             rest == CombineFrom(fragments, i + 1)
         IN  IF ~fragment_bits.ok \/ ~rest.ok THEN [ok |-> FALSE, bits |-> <<>>]
             ELSE IF i = Len(fragments)
             THEN IF Len(fragment_bits.bits) < fragments[i].fill_bits
                  THEN [ok |-> FALSE, bits |-> <<>>]
                  ELSE [ok |-> TRUE,
                        bits |-> SubSeq(fragment_bits.bits, 1,
                                   Len(fragment_bits.bits) - fragments[i].fill_bits)]
             ELSE [ok |-> TRUE, bits |-> fragment_bits.bits \o rest.bits]

combine_fragments(fragments) == CombineFrom(fragments, 1)

\* storing without the `received` test: a resubmission overwrites the slot
StoreFragmentOverwrite(info, fragment_number, payload, fill_bits, t) ==
    [fragments |-> [info.fragments EXCEPT ![fragment_number] =
                       [payload |-> payload, fill_bits |-> fill_bits,
                        received |-> TRUE]],
     last_update |-> t,
     received_count |-> info.received_count + 1]

\* storing in the next free slot, in order of arrival
StoreFragmentInArrivalOrder(info, fragment_number, payload, fill_bits, t) ==
    IF ~info.fragments[fragment_number].received
    THEN [fragments |-> [info.fragments EXCEPT ![info.received_count + 1] =
                            [payload |-> payload, fill_bits |-> fill_bits,
                             received |-> TRUE]],
          last_update |-> t,
          received_count |-> info.received_count + 1]
    ELSE info

\* storing without reading the clock: last_update stays at creation time
StoreFragmentKeepsTime(info, fragment_number, payload, fill_bits, t) ==
    IF ~info.fragments[fragment_number].received
    THEN [fragments |-> [info.fragments EXCEPT ![fragment_number] =
                            [payload |-> payload, fill_bits |-> fill_bits,
                             received |-> TRUE]],
          last_update |-> info.last_update,
          received_count |-> info.received_count + 1]
    ELSE info

\* lines 96-105: store the fragment in its slot unless the slot is taken
StoreFragment(info, fragment_number, payload, fill_bits, t) ==
    IF ~info.fragments[fragment_number].received
    THEN [fragments |-> [info.fragments EXCEPT ![fragment_number] =
                            [payload |-> payload, fill_bits |-> fill_bits,
                             received |-> TRUE]],
          last_update |-> t,
          received_count |-> info.received_count + 1]
    ELSE info

\* one way a call can end: the map and its size afterwards, what was
\* returned, and what happened on the way
Outcome(msgs, count, ret, how, isUb, created, victims, accepted) ==
    [msgs |-> msgs, count |-> count, ret |-> ret, how |-> how, ub |-> isUb,
     created |-> created, victims |-> victims, accepted |-> accepted]

\* lines 107-120 on a live group: combine and erase when complete
Complete(msgs, key, created, victims, accepted) ==
    LET info == msgs[key]
    IN  IF info.received_count = Len(info.fragments)
        THEN LET combined == combine_fragments(info.fragments)
             IN  IF combined.ok
                 THEN {Outcome(Erase(msgs, key), Size(msgs) - 1,
                               RetBits(combined.bits), "emitted", FALSE,
                               created, victims, accepted)}
                 ELSE {Outcome(msgs, Size(msgs), RetThrow, "combine_throw",
                               FALSE, created, victims, accepted)}
        ELSE {Outcome(msgs, Size(msgs), RetNone,
                      IF accepted THEN "stored" ELSE "duplicate", FALSE,
                      created, victims, accepted)}

\* lines 92-120 when the capacity eviction erased the node `it` points to:
\* every access through `it` is a use of freed memory.  Either the process
\* dies, or the freed node still reads as it was written (all slots empty),
\* the stores land in freed memory, and a one-slot group goes on to combine
\* and to erase the same node a second time, which takes the node count
\* down once more.
StaleIterator(msgs, key, fragment_count, payload, fill_bits, victims) ==
    LET combined == combine_fragments(
                       <<[payload |-> payload, fill_bits |-> fill_bits,
                          received |-> TRUE]>>)
    IN  {Outcome(msgs, Size(msgs), RetCrash, "crash", TRUE, TRUE, victims, FALSE)}
        \cup
        (IF fragment_count # 1
         THEN {Outcome(msgs, Size(msgs), RetNone, "stale_iterator", TRUE,
                       TRUE, victims, FALSE)}
         ELSE IF ~combined.ok
         THEN {Outcome(msgs, Size(msgs), RetThrow, "stale_iterator", TRUE,
                       TRUE, victims, FALSE)}
         ELSE {Outcome(msgs, Size(msgs) - 1, RetBits(combined.bits),
                       "double_erase", TRUE, TRUE, victims, FALSE)})

\* lines 92-120 when fragment_number - 1 is past the end of the group's
\* fragments vector: the `received` flag read there is whatever the heap
\* holds.  Either the process dies, or the flag reads true and the call
\* changes nothing, or it reads false: the stores land past the vector and
\* received_count and last_update of the group are updated.
OutOfBounds(msgs, key, t) ==
    LET info == msgs[key]
        bumped == [msgs EXCEPT ![key] =
                      [info EXCEPT !.received_count = info.received_count + 1,
                                   !.last_update = t]]
        combined == combine_fragments(info.fragments)
    IN  {Outcome(msgs, Size(msgs), RetCrash, "crash", TRUE, FALSE, {}, FALSE),
         Outcome(msgs, Size(msgs), RetNone, "out_of_bounds", TRUE, FALSE, {}, FALSE)}
        \cup
        (IF info.received_count + 1 # Len(info.fragments)
         THEN {Outcome(bumped, Size(msgs), RetNone, "out_of_bounds", TRUE,
                       FALSE, {}, TRUE)}
         ELSE IF combined.ok
         THEN {Outcome(Erase(msgs, key), Size(msgs) - 1, RetBits(combined.bits),
                       "out_of_bounds", TRUE, FALSE, {}, TRUE)}
         ELSE {Outcome(bumped, Size(msgs), RetThrow, "out_of_bounds", TRUE,
                       FALSE, {}, TRUE)})

\* MultipartMessageManager::add_fragment at time t on the map msgs with
\* capacity max_messages: the set of ways the call can end
add_fragment(msgs, max_messages, t, fragment_number, fragment_count, message_id, channel, payload, fill_bits) ==
    IF ~ValidFragment(fragment_number, fragment_count, channel, fill_bits)
    THEN {Outcome(msgs, Size(msgs), RetThrow, "invalid_argument", FALSE,
                  FALSE, {}, FALSE)}
    ELSE
    LET key == MessageKey(message_id, fragment_count, channel)
        found == key \in DOMAIN msgs
        inserted == [k \in (DOMAIN msgs) \cup {key} |->
                        IF k = key THEN NewInfo(fragment_count, t) ELSE msgs[k]]
        evict == ~found /\ Size(inserted) > max_messages
        victims == IF evict THEN {OldestKey(inserted)} ELSE {}
        held == IF found THEN msgs
                ELSE [k \in (DOMAIN inserted) \ victims |-> inserted[k]]
    IN  IF key \in victims
        THEN StaleIterator(held, key, fragment_count, payload, fill_bits, victims)
        ELSE IF fragment_number > Len(held[key].fragments)
        THEN OutOfBounds(held, key, t)
        ELSE LET accepted == ~held[key].fragments[fragment_number].received
                 stored == [held EXCEPT ![key] =
                              StoreFragment(held[key], fragment_number,
                                            payload, fill_bits, t)]
             IN  Complete(stored, key, ~found, victims, accepted)

\* a sweep that also removes a group whose age equals the timeout
cleanup_expired_inclusive(msgs, timeout, t) ==
    LET kept == {k \in DOMAIN msgs : ~(t - msgs[k].last_update >= timeout)}
    IN  [k \in kept |-> msgs[k]]

\* MultipartMessageManager::cleanup_expired at time t
cleanup_expired(msgs, timeout, t) ==
    LET kept == {k \in DOMAIN msgs : ~(t - msgs[k].last_update > timeout)}
    IN  [k \in kept |-> msgs[k]]

\* set_max_messages with the sort turned around: the newest groups go
set_max_messages_newest_first(msgs, max_messages) ==
    IF Size(msgs) > max_messages
    THEN LET to_remove == Size(msgs) - max_messages
         IN  {[k \in (DOMAIN msgs) \ R |-> msgs[k]] :
                R \in {R \in SUBSET (DOMAIN msgs) :
                         /\ Cardinality(R) = to_remove
                         /\ \A r \in R : \A k \in (DOMAIN msgs) \ R :
                               msgs[r].last_update >= msgs[k].last_update}}
    ELSE {msgs}

\* MultipartMessageManager::set_max_messages: the maps it can leave.  The
\* std::sort on last_update alone is not stable, so among groups of equal
\* last_update any may come first.
set_max_messages(msgs, max_messages) ==
    IF Size(msgs) > max_messages
    THEN LET to_remove == Size(msgs) - max_messages
         IN  {[k \in (DOMAIN msgs) \ R |-> msgs[k]] :
                R \in {R \in SUBSET (DOMAIN msgs) :
                         /\ Cardinality(R) = to_remove
                         /\ \A r \in R : \A k \in (DOMAIN msgs) \ R :
                               msgs[r].last_update <= msgs[k].last_update}}
    ELSE {msgs}

-----------------------------------------------------------------------------
(* The reassembler as a state machine *)

NoKey == [message_id |-> <<>>, channel |-> 0]

\* the record of a call that is not add_fragment; victims are the keys it erased
LastOf(op, victims) ==
    [op |-> op, fragment_number |-> 0, fragment_count |-> 0,
     message_id |-> <<>>, channel |-> 0, fill_bits |-> 0,
     how |-> "done", ret |-> RetNone, key |-> NoKey,
     created |-> FALSE, victims |-> victims, accepted |-> FALSE]

\* the history variables follow the map: a group that left the map is forgotten
Follow(hist, msgs, key, changed, value) ==
    [k \in DOMAIN msgs |-> IF k = key /\ changed THEN value ELSE hist[k]]

NoScenario == [fragment_count |-> 0]

\* MultipartMessageManager(timeout, max_messages) with an empty map
Constructed(timeout, max_messages) ==
    /\ messages = EmptyMap
    /\ timeout_ = timeout
    /\ max_messages_ = max_messages
    /\ node_count = 0
    /\ now = 0
    /\ ub = FALSE
    /\ last = LastOf("construct", {})
    /\ owner = EmptyMap
    /\ accepted_at = EmptyMap
    /\ calls = 0

Init ==
    /\ \E timeout \in 0..MaxTimeout, max_messages \in 0..MaxGroups :
          Constructed(timeout, max_messages)
    /\ scenario = NoScenario
    /\ last_error = "NONE"

\* one add_fragment call on the reassembler, with its history
DoAddFragment(fragment_number, fragment_count, message_id, channel, payload, fill_bits) ==
    /\ ~ub
    /\ calls' = calls + 1
    /\ \E o \in add_fragment(messages, max_messages_, now, fragment_number,
                             fragment_count, message_id, channel, payload, fill_bits) :
         LET key == MessageKey(message_id, fragment_count, channel)
         IN  /\ messages' = o.msgs
             /\ node_count' = o.count
             /\ ub' = o.ub
             /\ last' = [op |-> "add_fragment",
                         fragment_number |-> fragment_number,
                         fragment_count |-> fragment_count,
                         message_id |-> message_id, channel |-> channel,
                         fill_bits |-> fill_bits,
                         how |-> o.how, ret |-> o.ret, key |-> key,
                         created |-> o.created, victims |-> o.victims,
                         accepted |-> o.accepted]
             /\ owner' = Follow(owner, o.msgs, key, o.created,
                                [message_id |-> message_id, channel |-> channel])
             /\ accepted_at' = Follow(accepted_at, o.msgs, key, o.accepted, now)
    /\ UNCHANGED <<timeout_, max_messages_, now>>

AddFragment(fragment_number, fragment_count, message_id, channel, payload, fill_bits) ==
    /\ calls < MaxCalls
    /\ DoAddFragment(fragment_number, fragment_count, message_id, channel,
                     payload, fill_bits)
    /\ UNCHANGED <<scenario, last_error>>

CleanupExpired ==
    /\ ~ub
    /\ messages' = cleanup_expired(messages, timeout_, now)
    /\ node_count' = Size(messages')
    /\ last' = LastOf("cleanup_expired", (DOMAIN messages) \ (DOMAIN messages'))
    /\ owner' = Follow(owner, messages', NoKey, FALSE, 0)
    /\ accepted_at' = Follow(accepted_at, messages', NoKey, FALSE, 0)
    /\ UNCHANGED <<timeout_, max_messages_, now, ub, calls, scenario, last_error>>

Clear ==
    /\ ~ub
    /\ messages' = EmptyMap
    /\ node_count' = 0
    /\ last' = LastOf("clear", DOMAIN messages)
    /\ owner' = EmptyMap
    /\ accepted_at' = EmptyMap
    /\ UNCHANGED <<timeout_, max_messages_, now, ub, calls, scenario, last_error>>

SetTimeout(timeout) ==
    /\ ~ub
    /\ timeout_' = timeout
    /\ last' = LastOf("set_timeout", {})
    /\ UNCHANGED <<messages, max_messages_, node_count, now, ub, owner,
                   accepted_at, calls, scenario, last_error>>

SetMaxMessages(max_messages) ==
    /\ ~ub
    /\ max_messages_' = max_messages
    /\ messages' \in set_max_messages(messages, max_messages)
    /\ node_count' = Size(messages')
    /\ last' = LastOf("set_max_messages", (DOMAIN messages) \ (DOMAIN messages'))
    /\ owner' = Follow(owner, messages', NoKey, FALSE, 0)
    /\ accepted_at' = Follow(accepted_at, messages', NoKey, FALSE, 0)
    /\ UNCHANGED <<timeout_, now, ub, calls, scenario, last_error>>

\* the steady clock moves on between calls
Tick ==
    /\ ~ub
    /\ now < MaxTime
    /\ now' = now + 1
    /\ UNCHANGED <<messages, timeout_, max_messages_, node_count, ub, last,
                   owner, accepted_at, calls, scenario, last_error>>

\* the calls the model makes: every well-formed fragment, and every fragment
\* that fails exactly one of the three checks
Submissions ==
    {s \in [fragment_number : 0..MaxFrag, fragment_count : 0..MaxFrag,
            message_id : MessageIds, channel : Channels,
            payload : Payloads, fill_bits : FillBits] :
        LET faults == (IF s.fragment_number < 1
                          \/ s.fragment_number > s.fragment_count THEN 1 ELSE 0)
                      + (IF s.channel \notin {CH_A, CH_B} THEN 1 ELSE 0)
                      + (IF s.fill_bits > 5 THEN 1 ELSE 0)
        IN  faults = 0 \/ (faults = 1 /\ s.payload = P_1)}

Next ==
    \/ \E s \in Submissions :
            AddFragment(s.fragment_number, s.fragment_count, s.message_id,
                        s.channel, s.payload, s.fill_bits)
    \/ CleanupExpired
    \/ Clear
    \/ \E timeout \in 0..MaxTimeout : SetTimeout(timeout)
    \/ \E max_messages \in 0..MaxGroups : SetMaxMessages(max_messages)
    \/ Tick

Spec == Init /\ [][Next]_vars

\* messages_.size() as get_incomplete_count returns it.  node_count is kept
\* as a mathematical integer: a negative value n stands for the size_t
\* value 2^64 + n.
get_incomplete_count == node_count

TypeOK ==
    /\ now \in 0..MaxTime
    /\ ub \in BOOLEAN
    /\ DOMAIN owner = DOMAIN messages
    /\ DOMAIN accepted_at = DOMAIN messages

-----------------------------------------------------------------------------
(* One group: its fragments submitted in any order, with resubmissions,    *)
(* to a reassembler of default configuration; no sweep, no clear, and no   *)
(* eviction, since the map never holds a second group.                     *)

DefaultTimeout == 60          \* std::chrono::seconds(60)
DefaultMaxMessages == 100     \* size_t max_messages = 100
MaxResubmit == 2              \* at most MaxResubmit resubmissions

GroupPayloads == {P_1, P_w, P_X}
GroupFillBits == {0, 2}

InitGroup ==
    /\ Constructed(DefaultTimeout, DefaultMaxMessages)
    /\ last_error = "NONE"
    /\ \E fragment_count \in 2..MaxFrag, message_id \in {<<>>, ID_1} :
       \E fragments \in [1..fragment_count ->
                           [payload : GroupPayloads, fill_bits : GroupFillBits]] :
          scenario = [fragment_count |-> fragment_count,
                      message_id |-> message_id,
                      channel |-> CH_A,
                      fragments |-> fragments,
                      todo |-> 1..fragment_count,
                      order |-> <<>>,
                      emitted |-> <<>>]

\* the call for fragment i of the scenario, and the scenario's history
SubmitOf(i) ==
    /\ DoAddFragment(i, scenario.fragment_count, scenario.message_id,
                     scenario.channel, scenario.fragments[i].payload,
                     scenario.fragments[i].fill_bits)
    /\ scenario' = [scenario EXCEPT
                      !.todo = @ \ {i},
                      !.order = Append(@, i),
                      !.emitted = IF last'.ret.kind = "bits"
                                  THEN Append(@, last'.ret.bits) ELSE @]
    /\ UNCHANGED last_error

\* a fragment that was not submitted before
Submit(i) ==
    /\ i \in scenario.todo
    /\ SubmitOf(i)

\* a fragment that was submitted before
Resubmit(i) ==
    /\ i \in (1..scenario.fragment_count) \ scenario.todo
    /\ Len(scenario.order) - (scenario.fragment_count - Cardinality(scenario.todo))
          < MaxResubmit
    /\ SubmitOf(i)

GroupTick ==
    /\ now < MaxTime
    /\ now' = now + 1
    /\ UNCHANGED <<messages, timeout_, max_messages_, node_count, ub, last,
                   owner, accepted_at, calls, scenario, last_error>>

NextGroup ==
    \/ \E i \in 1..MaxFrag : Submit(i)
    \/ \E i \in 1..MaxFrag : Resubmit(i)
    \/ GroupTick

SpecGroup == InitGroup /\ [][NextGroup]_vars

\* what the scenario's fragments emit when they are submitted in the order
\* 1, 2, .., N to an empty reassembler: the buffers returned, call by call
RECURSIVE InOrderFrom(_, _, _)
InOrderFrom(sc, i, msgs) ==
    IF i > sc.fragment_count THEN <<>>
    ELSE LET o == CHOOSE o \in add_fragment(msgs, DefaultMaxMessages, 0, i,
                                  sc.fragment_count, sc.message_id, sc.channel,
                                  sc.fragments[i].payload,
                                  sc.fragments[i].fill_bits) : TRUE
         IN  (IF o.ret.kind = "bits" THEN <<o.ret.bits>> ELSE <<>>)
             \o InOrderFrom(sc, i + 1, o.msgs)

InOrderEmitted(sc) == InOrderFrom(sc, 1, EmptyMap)

-----------------------------------------------------------------------------
(* NMEA sentences: checksum, fields, std::stoi *)

STAR == 42             \* '*'
COMMA == 44            \* ','
AIVDM == <<33, 65, 73, 86, 68, 77>>     \* "!AIVDM"
AIVDO == <<33, 65, 73, 86, 68, 79>>     \* "!AIVDO"

\* std::string::find(c): the first position of c in s (from 1), 0 for npos
Find(s, c) ==
    LET at == {i \in 1..Len(s) : s[i] = c}
    IN  IF at = {} THEN 0 ELSE CHOOSE i \in at : \A j \in at : i <= j

\* static_cast<uint8_t>(v)
uint8(v) == v % 256

\* checksum ^= s[i] for i from start up to end - 1, from bit k upwards: a
\* bit of the result is set when an odd number of the characters have it set
RECURSIVE XorRange(_, _, _, _)
XorRange(s, start, end, k) ==
    IF k > 7 THEN 0
    ELSE (Cardinality({i \in start..(end - 1) : (s[i] \div (2 ^ k)) % 2 = 1}) % 2)
         + 2 * XorRange(s, start, end, k + 1)

\* NMEAUtils::calculate_checksum: XOR of the characters after a leading
\* '$' or '!' and before the first '*'
calculate_checksum(sentence) ==
    LET start_pos == IF Len(sentence) > 0 /\ sentence[1] \in {36, 33}
                     THEN 2 ELSE 1
        end_pos == IF Find(sentence, STAR) = 0 THEN Len(sentence) + 1
                   ELSE Find(sentence, STAR)
    IN  XorRange(sentence, start_pos, end_pos, 0)

\* the value of c as a digit in the base, -1 when it is none
DigitValue(c, base) ==
    LET v == IF c \in 48..57 THEN c - 48
             ELSE IF c \in 97..122 THEN c - 97 + 10
             ELSE IF c \in 65..90 THEN c - 65 + 10
             ELSE base
    IN  IF v < base THEN v ELSE -1

\* the longest run of digits of s from position i: how many, their value,
\* and whether the value fits an int, that is, is at most 2^31 - 1 (the value
\* stops growing when not)
RECURSIVE Digits(_, _, _, _, _, _)
Digits(s, i, base, acc, n, fits) ==
    IF i > Len(s) \/ DigitValue(s[i], base) < 0
    THEN [n |-> n, value |-> acc, fits |-> fits]
    ELSE LET d == DigitValue(s[i], base)
             room == fits /\ acc <= (2147483647 - d) \div base
         IN  Digits(s, i + 1, base, IF room THEN acc * base + d ELSE acc,
                    n + 1, room)

RECURSIVE SkipSpace(_, _)
SkipSpace(s, i) ==
    IF i <= Len(s) /\ s[i] \in {32, 9, 10, 11, 12, 13}
    THEN SkipSpace(s, i + 1) ELSE i

\* std::stoi(s, nullptr, base): leading white space, an optional sign, for
\* base 16 an optional 0x, then digits; what follows the digits is ignored.
\* ok is false where stoi throws: no digit (invalid_argument) or a value
\* that is no int (out_of_range; -2^31 is taken as out of range too).
stoi(s, base) ==
    LET i == SkipSpace(s, 1)
        signed == i <= Len(s) /\ s[i] \in {43, 45}
        negative == signed /\ s[i] = 45
        j == IF signed THEN i + 1 ELSE i
        prefixed == /\ base = 16 /\ j + 2 <= Len(s)
                    /\ s[j] = 48 /\ s[j + 1] \in {120, 88}
                    /\ DigitValue(s[j + 2], 16) >= 0
        d == Digits(s, IF prefixed THEN j + 2 ELSE j, base, 0, 0, TRUE)
        value == IF negative THEN 0 - d.value ELSE d.value
    IN  [ok |-> d.n > 0 /\ d.fits, value |-> value]

\* NMEAUtils::validate_checksum
validate_checksum(sentence) ==
    LET asterisk_pos == Find(sentence, STAR)
    IN  IF asterisk_pos = 0 \/ asterisk_pos + 2 > Len(sentence) THEN FALSE
        ELSE LET checksum_str == SubSeq(sentence, asterisk_pos + 1, asterisk_pos + 2)
                 expected == stoi(checksum_str, 16)
                 sentence_part == SubSeq(sentence, 1, asterisk_pos - 1)
             IN  /\ expected.ok
                 /\ calculate_checksum(sentence_part) = uint8(expected.value)

\* std::getline(ss, field, ',') until it fails: a field ends at a comma or
\* at the end of the text, and an empty field at the very end is not read
Split(s) ==
    LET commas == {i \in 1..Len(s) : s[i] = COMMA}
        n == Cardinality(commas)
        \* the position of the k-th comma; 0 and Len(s) + 1 close the text
        Comma(k) == IF k = 0 THEN 0
                    ELSE IF k > n THEN Len(s) + 1
                    ELSE CHOOSE i \in commas :
                            Cardinality({j \in commas : j < i}) = k - 1
        all == [k \in 1..(n + 1) |-> SubSeq(s, Comma(k - 1) + 1, Comma(k) - 1)]
    IN  IF all[n + 1] = <<>> THEN SubSeq(all, 1, n) ELSE all

\* NMEAUtils::parse_fields
parse_fields(sentence) ==
    LET asterisk_pos == Find(sentence, STAR)
        sentence_without_checksum ==
            IF asterisk_pos # 0 THEN SubSeq(sentence, 1, asterisk_pos - 1)
            ELSE sentence
    IN  Split(sentence_without_checksum)

-----------------------------------------------------------------------------
(* AISMessage::from_bits and the two entry points of AISParser *)

\* BitVector::get_uint(start, length): the bits, most significant first
RECURSIVE get_uint(_, _, _)
get_uint(bits, start, length) ==
    IF length = 0 THEN 0
    ELSE 2 * get_uint(bits, start, length - 1) + bits[start + length]

\* the message types whose constructor the factory has registered
RegisteredTypes == {1, 2, 3, 4, 5, 18, 19}

\* the number of bits the constructor of a registered type reads
MinBits(message_type) ==
    CASE message_type \in {1, 2, 3, 4, 18} -> 168
      [] message_type = 19 -> 308
      [] message_type = 5 -> 423

\* AISMessage::from_bits: ok is false where it throws
from_bits(bits) ==
    IF Len(bits) < 38 THEN [ok |-> FALSE, bits |-> <<>>]
    ELSE LET message_type == get_uint(bits, 0, 6)
         IN  IF message_type \notin RegisteredTypes
                \/ Len(bits) < MinBits(message_type)
             THEN [ok |-> FALSE, bits |-> <<>>]
             ELSE [ok |-> TRUE, bits |-> SubSeq(bits, 1, MinBits(message_type))]

\* what a parser call returns: nullptr, or a message (the bits it decoded)
ResNone == [kind |-> "none", bits |-> <<>>]
ResMessage(b) == [kind |-> "message", bits |-> b]
ResCrash == [kind |-> "crash", bits |-> <<>>]

NoArgs ==
    [fragment_number |-> 0, fragment_count |-> 0, message_id |-> <<>>,
     channel |-> 0, fill_bits |-> 0]

\* one way a parser call can end: what became of the reassembler (mgr), the
\* arguments the reassembler was called with, the result and last_error_.type
ParserOutcome(o, args, result, error, isUb) ==
    [mgr |-> o, args |-> args, result |-> result, error |-> error, ub |-> isUb]

\* the reassembler was not called
Untouched(msgs) ==
    Outcome(msgs, Size(msgs), RetNone, "no_call", FALSE, FALSE, {}, FALSE)

\* set_error(error, ..); return nullptr
Failed(msgs, error) ==
    {ParserOutcome(Untouched(msgs), NoArgs, ResNone, error, FALSE)}

\* fields[4][0]: the terminating '\0' when the field is empty
FirstChar(field) == IF field = <<>> THEN 0 ELSE field[1]

\* lines 102-107 of parse: decode, any exception is INVALID_PAYLOAD
Decoded(msgs, bits, isUb) ==
    LET m == from_bits(bits)
    IN  ParserOutcome([Untouched(msgs) EXCEPT !.ub = isUb], NoArgs,
                      IF m.ok THEN ResMessage(m.bits) ELSE ResNone,
                      IF m.ok THEN "NONE" ELSE "INVALID_PAYLOAD", isUb)

\* lines 163-179 of add_fragment: what the reassembler returned or threw
Delivered(o, args) ==
    LET m == from_bits(o.ret.bits)
    IN  CASE o.ret.kind = "crash" -> ParserOutcome(o, args, ResCrash, "NONE", TRUE)
          [] o.ret.kind = "throw" -> ParserOutcome(o, args, ResNone, "OTHER", o.ub)
          [] o.ret.kind = "none" -> ParserOutcome(o, args, ResNone, "NONE", o.ub)
          [] o.ret.kind = "bits" ->
                ParserOutcome(o, args,
                              IF m.ok THEN ResMessage(m.bits) ELSE ResNone,
                              IF m.ok THEN "NONE" ELSE "OTHER", o.ub)

\* AISParser::add_fragment(nmea_sentence) at time t
AISParser_add_fragment(msgs, max_messages, t, nmea_sentence) ==
    IF ~validate_checksum(nmea_sentence)
    THEN Failed(msgs, "INVALID_CHECKSUM")
    ELSE
    LET fields == parse_fields(nmea_sentence)
    IN  IF Len(fields) < 7 \/ fields[1] \notin {AIVDM, AIVDO}
        THEN Failed(msgs, "INVALID_SENTENCE_FORMAT")
        ELSE
        LET count == stoi(fields[2], 10)
            number == stoi(fields[3], 10)
            fill == stoi(fields[7], 10)
            args == [fragment_number |-> uint8(number.value),
                     fragment_count |-> uint8(count.value),
                     message_id |-> fields[4],
                     channel |-> FirstChar(fields[5]),
                     fill_bits |-> uint8(fill.value)]
        IN  IF ~count.ok \/ ~number.ok \/ ~fill.ok
            THEN Failed(msgs, "INVALID_FRAGMENT_INFO")
            ELSE {Delivered(o, args) :
                    o \in add_fragment(msgs, max_messages, t,
                                       args.fragment_number, args.fragment_count,
                                       args.message_id, args.channel,
                                       fields[6], args.fill_bits)}

\* lines 77-107 of parse: a single-fragment sentence is decoded on the spot.
\* payload.back() of an empty payload reads the byte in front of the text:
\* the process dies, or some byte is read, and the at most five bits taken
\* from it are too few for a message.
DecodeSingle(msgs, payload, fill_bits) ==
    LET whole == BitVectorOf(payload)
        head == BitVectorOf(SubSeq(payload, 1, Len(payload) - 1))
        last_char == payload[Len(payload)]
        last_char_value == IF ArmorValue(last_char) >= 0
                           THEN ArmorValue(last_char) ELSE 0
    IN  IF ~whole.ok THEN Failed(msgs, "INVALID_PAYLOAD")
        ELSE IF fill_bits \notin 1..5 THEN {Decoded(msgs, whole.bits, FALSE)}
        ELSE IF payload = <<>>
        THEN {ParserOutcome([Untouched(msgs) EXCEPT !.ub = TRUE, !.how = "crash"],
                            NoArgs, ResCrash, "NONE", TRUE),
              ParserOutcome([Untouched(msgs) EXCEPT !.ub = TRUE], NoArgs,
                            ResNone, "INVALID_PAYLOAD", TRUE)}
        ELSE {Decoded(msgs, head.bits \o SubSeq(Bits6(last_char_value), 1,
                                                 6 - fill_bits), FALSE)}

\* AISParser::parse(nmea_sentence) at time t
AISParser_parse(msgs, max_messages, t, nmea_sentence) ==
    IF ~validate_checksum(nmea_sentence)
    THEN Failed(msgs, "INVALID_CHECKSUM")
    ELSE
    LET fields == parse_fields(nmea_sentence)
    IN  IF Len(fields) < 7 \/ fields[1] \notin {AIVDM, AIVDO}
        THEN Failed(msgs, "INVALID_SENTENCE_FORMAT")
        ELSE
        LET count == stoi(fields[2], 10)
            number == stoi(fields[3], 10)
            fill == stoi(fields[7], 10)
            fragment_count == uint8(count.value)
            fragment_number == uint8(number.value)
        IN  IF ~count.ok \/ ~number.ok
            THEN Failed(msgs, "INVALID_FRAGMENT_INFO")
            ELSE IF fragment_count < 1 \/ fragment_number < 1
                    \/ fragment_number > fragment_count
            THEN Failed(msgs, "INVALID_FRAGMENT_INFO")
            ELSE IF FirstChar(fields[5]) \notin {CH_A, CH_B}
            THEN Failed(msgs, "INVALID_FRAGMENT_INFO")
            ELSE IF ~fill.ok
            THEN Failed(msgs, "INVALID_FRAGMENT_INFO")
            ELSE IF fragment_count = 1
            THEN DecodeSingle(msgs, fields[6], uint8(fill.value))
            ELSE AISParser_add_fragment(msgs, max_messages, t, nmea_sentence)

-----------------------------------------------------------------------------
(* The parser as a state machine: sentences arrive at either entry point *)

\* an upper-case hexadecimal digit
HexDigit(v) == IF v < 10 THEN 48 + v ELSE 55 + v

RECURSIVE Join(_)
Join(fields) ==
    IF Len(fields) = 1 THEN fields[1]
    ELSE fields[1] \o <<COMMA>> \o Join(Tail(fields))

\* the text with '*' and its checksum as two hexadecimal digits
WithChecksum(sentence_base) ==
    LET checksum == calculate_checksum(sentence_base)
    IN  sentence_base \o <<STAR, HexDigit(checksum \div 16), HexDigit(checksum % 16)>>

\* the same sentence with another last checksum digit
WithBadChecksum(sentence_base) ==
    LET good == WithChecksum(sentence_base)
    IN  [good EXCEPT ![Len(good)] = IF good[Len(good)] = 48 THEN 49 ELSE 48]

S_1 == <<49>>                 \* "1"
S_2 == <<50>>                 \* "2"
S_0 == <<48>>                 \* "0"
S_7 == <<55>>                 \* "7"
S_257 == <<50, 53, 55>>       \* "257"
S_x == <<120>>                \* "x"
S_A == <<CH_A>>               \* "A"
S_C == <<CH_C>>               \* "C"
GPGGA == <<36, 71, 80, 71, 71, 65>>     \* "$GPGGA"

\* a position report of type 1, all other fields zero: 28 characters, and
\* its two halves
P_REPORT == <<49>> \o [i \in 1..27 |-> 48]
P_REPORT_1 == SubSeq(P_REPORT, 1, 14)
P_REPORT_2 == SubSeq(P_REPORT, 15, 28)

\* payloads whose first character gives the type codes 6, 7 and 8
P_TYPE6 == <<54>> \o [i \in 1..27 |-> 48]
P_TYPE7 == <<55>> \o [i \in 1..6 |-> 48]
P_TYPE8 == <<56>> \o [i \in 1..27 |-> 48]

Sentence(talker, count, number, message_id, channel, payload, fill) ==
    WithChecksum(Join(<<talker, count, number, message_id, channel, payload, fill>>))

Sentences ==
    { Sentence(AIVDM, S_1, S_1, <<>>, S_A, P_REPORT, S_0),
      Sentence(AIVDM, S_257, S_1, <<>>, S_A, P_REPORT, S_0),
      Sentence(AIVDM, S_1, S_1, <<>>, S_A, P_1, S_0),
      Sentence(AIVDM, S_1, S_1, <<>>, S_A, P_1, S_7),
      Sentence(AIVDM, S_1, S_1, <<>>, S_A, P_X, S_0),
      Sentence(AIVDM, S_1, S_1, <<>>, S_A, P_EMPTY, S_2),
      Sentence(AIVDM, S_1, S_2, <<>>, S_A, P_1, S_0),
      Sentence(AIVDM, S_2, S_1, ID_1, S_A, P_REPORT_1, S_0),
      Sentence(AIVDO, S_2, S_2, ID_1, S_A, P_REPORT_2, S_0),
      Sentence(AIVDM, S_2, S_1, <<>>, S_A, P_1, S_0),
      Sentence(AIVDM, S_2, S_2, <<>>, S_A, P_1, S_0),
      Sentence(AIVDM, S_2, S_1, <<>>, S_C, P_1, S_0),
      Sentence(AIVDM, S_x, S_1, <<>>, S_A, P_1, S_0),
      Sentence(AIVDM, S_2, S_1, <<>>, S_A, P_1, S_x),
      Sentence(AIVDM, S_1, S_1, <<>>, S_A, P_REPORT, S_7),
      Sentence(AIVDM, S_2, S_1, <<>>, S_A, P_1, S_7),
      Sentence(AIVDM, S_1, S_1, <<>>, S_A, P_TYPE6, S_0),
      Sentence(AIVDM, S_1, S_1, <<>>, S_A, P_TYPE7, S_0),
      Sentence(AIVDM, S_1, S_1, <<>>, S_A, P_TYPE8, S_0),
      Sentence(AIVDM, S_2, S_1, S_7, S_A, P_TYPE7, S_0),
      Sentence(AIVDM, S_2, S_2, S_7, S_A, P_1, S_0),
      Sentence(GPGGA, S_1, S_1, <<>>, S_A, P_1, S_0),
      Join(<<AIVDM, S_1, S_1, <<>>, S_A, P_1, S_0>>),
      WithChecksum(Join(<<AIVDM, S_1, S_1, <<>>, S_A, P_1>>)),
      WithBadChecksum(Join(<<AIVDM, S_2, S_1, <<>>, S_A, P_1, S_0>>)) }

\* AISParser(ParserConfig()): the reassembler of the default configuration
InitParser ==
    /\ Constructed(DefaultTimeout, DefaultMaxMessages)
    /\ scenario = NoScenario
    /\ last_error = "NONE"

\* one call of an entry point, with its history
ParserCall(op, outcomes) ==
    /\ ~ub
    /\ calls < MaxCalls
    /\ calls' = calls + 1
    /\ \E p \in outcomes :
         LET key == MessageKey(p.args.message_id, p.args.fragment_count,
                               p.args.channel)
         IN  /\ messages' = p.mgr.msgs
             /\ node_count' = p.mgr.count
             /\ ub' = p.ub
             /\ last_error' = p.error
             /\ last' = [op |-> op,
                         fragment_number |-> p.args.fragment_number,
                         fragment_count |-> p.args.fragment_count,
                         message_id |-> p.args.message_id,
                         channel |-> p.args.channel,
                         fill_bits |-> p.args.fill_bits,
                         how |-> p.mgr.how, ret |-> p.result, key |-> key,
                         created |-> p.mgr.created, victims |-> p.mgr.victims,
                         accepted |-> p.mgr.accepted]
             /\ owner' = Follow(owner, p.mgr.msgs, key, p.mgr.created,
                                [message_id |-> p.args.message_id,
                                 channel |-> p.args.channel])
             /\ accepted_at' = Follow(accepted_at, p.mgr.msgs, key,
                                      p.mgr.accepted, now)
    /\ UNCHANGED <<timeout_, max_messages_, now, scenario>>

Parse(nmea_sentence) ==
    ParserCall("parse",
               AISParser_parse(messages, max_messages_, now, nmea_sentence))

ParserAddFragment(nmea_sentence) ==
    ParserCall("parser_add_fragment",
               AISParser_add_fragment(messages, max_messages_, now, nmea_sentence))

\* AISParser::set_max_incomplete_messages
SetMaxIncompleteMessages(max_messages) == SetMaxMessages(max_messages)

\* AISParser::clear_incomplete_messages
ClearIncompleteMessages == Clear

NextParser ==
    \/ \E s \in Sentences : Parse(s)
    \/ \E s \in Sentences : ParserAddFragment(s)
    \/ \E max_messages \in 0..MaxGroups : SetMaxIncompleteMessages(max_messages)
    \/ ClearIncompleteMessages
    \/ Tick

SpecParser == InitParser /\ [][NextParser]_vars

-----------------------------------------------------------------------------
(* NMEAUtils as a state machine: a sentence is created or arrives, then its *)
(* checksum is validated                                                    *)

\* create_nmea_sentence without the zero padding of the checksum
WithChecksumNoPadding(sentence_base) ==
    LET checksum == calculate_checksum(sentence_base)
    IN  sentence_base \o <<STAR>>
        \o (IF checksum < 16 THEN <<>> ELSE <<HexDigit(checksum \div 16)>>)
        \o <<HexDigit(checksum % 16)>>

\* lines 141-153 of create_nmea_sentence: the checksum of the text so far,
\* appended after '*' as two upper-case hexadecimal digits
AppendChecksum(sentence_base) == WithChecksum(sentence_base)

\* NMEAUtils::create_nmea_sentence: ok is false where it throws
create_nmea_sentence(talker_id, payload, fragment_count, fragment_number, message_id, channel, fill_bits) ==
    IF \/ fragment_count < 1 \/ fragment_number < 1
       \/ fragment_number > fragment_count
       \/ channel \notin {CH_A, CH_B}
       \/ fill_bits > 5
    THEN [ok |-> FALSE, text |-> <<>>]
    ELSE [ok |-> TRUE,
          text |-> AppendChecksum(Join(<<talker_id, to_string(fragment_count),
                                         to_string(fragment_number), message_id,
                                         <<channel>>, payload,
                                         to_string(fill_bits)>>))]

\* NMEAUtils::create_aivdm_sentence
create_aivdm_sentence(payload, fragment_count, fragment_number, message_id, channel, fill_bits) ==
    create_nmea_sentence(AIVDM, payload, fragment_count, fragment_number,
                         message_id, channel, fill_bits)

\* NMEAUtils::create_aivdo_sentence
create_aivdo_sentence(payload, fragment_count, fragment_number, message_id, channel, fill_bits) ==
    create_nmea_sentence(AIVDO, payload, fragment_count, fragment_number,
                         message_id, channel, fill_bits)

P_AT == <<64, 96>>              \* payload "@`"
P_STAR == <<STAR>>              \* payload "*"
ID_STAR == <<STAR>>             \* group id "*"

\* what the create functions are called with
CreateInputs ==
    [payload : {P_1, P_EMPTY, P_AT, P_STAR},
     fragment_count : 1..MaxFrag, fragment_number : 1..MaxFrag,
     message_id : {<<>>, ID_1, ID_STAR},
     channel : Channels, fill_bits : 0..6]

\* texts in front of the '*': "!AB" (checksum 03), "$A" (checksum 41) and
\* "!AIVDM,2,1,,A,1,0" (checksum 14)
ChecksumBases ==
    { <<33, 65, 66>>, <<36, 65>>, Join(<<AIVDM, S_2, S_1, <<>>, S_A, P_1, S_0>>) }

\* characters after the '*': 0 1 3 4 A G x, a blank and a minus
ChecksumChars == {48, 49, 51, 52, 65, 71, 120, 32, 45}

\* what follows the text: nothing, or '*' and up to two characters
ChecksumTails ==
    {<<>>, <<STAR>>}
    \cup {<<STAR, c>> : c \in ChecksumChars}
    \cup {<<STAR, c, d>> : c \in ChecksumChars, d \in ChecksumChars}

ChecksumLines == {b \o t : b \in ChecksumBases, t \in ChecksumTails}

InitNmea ==
    /\ Constructed(DefaultTimeout, DefaultMaxMessages)
    /\ scenario = NoScenario
    /\ last_error = "NONE"

\* a sentence is at hand: where it came from, and what validate_checksum said
Arrived(op, input, sentence, created) ==
    /\ scenario = NoScenario
    /\ scenario' = [op |-> op, input |-> input, sentence |-> sentence,
                    created |-> created, checked |-> "no"]
    /\ last' = LastOf(op, {})
    /\ UNCHANGED <<messages, timeout_, max_messages_, node_count, now, ub,
                   owner, accepted_at, calls, last_error>>

CreateAivdmSentence(i) ==
    LET r == create_aivdm_sentence(i.payload, i.fragment_count, i.fragment_number,
                                   i.message_id, i.channel, i.fill_bits)
    IN  Arrived("create_aivdm_sentence", i, r.text, r.ok)

CreateAivdoSentence(i) ==
    LET r == create_aivdo_sentence(i.payload, i.fragment_count, i.fragment_number,
                                   i.message_id, i.channel, i.fill_bits)
    IN  Arrived("create_aivdo_sentence", i, r.text, r.ok)

\* a line from elsewhere
Receive(line) == Arrived("receive", <<>>, line, FALSE)

\* NMEAUtils::validate_checksum on the sentence at hand
ValidateChecksum ==
    /\ "sentence" \in DOMAIN scenario
    /\ scenario.op = "receive" \/ scenario.created
    /\ scenario.checked = "no"
    /\ scenario' = [scenario EXCEPT !.checked =
                       IF validate_checksum(scenario.sentence) THEN "true"
                       ELSE "false"]
    /\ last' = LastOf("validate_checksum", {})
    /\ UNCHANGED <<messages, timeout_, max_messages_, node_count, now, ub,
                   owner, accepted_at, calls, last_error>>

NextNmea ==
    \/ \E i \in CreateInputs : CreateAivdmSentence(i)
    \/ \E i \in CreateInputs : CreateAivdoSentence(i)
    \/ \E line \in ChecksumLines : Receive(line)
    \/ ValidateChecksum

SpecNmea == InitNmea /\ [][NextNmea]_vars

-----------------------------------------------------------------------------
(* BitVector at the level of its bytes: data_ and bit_count_.  A uint64_t   *)
(* is the sequence of its 64 bits, bit 0 first.                             *)

MaxPrefix == 9         \* the vector holds 0..MaxPrefix bits before the append

Zero64 == <<>> \o [i \in 1..64 |-> 0]
AllOnes64 == [i \in 1..64 |-> 1]
OneAt(p) == [i \in 1..64 |-> IF i = p + 1 THEN 1 ELSE 0]
Alternating64 == [i \in 1..64 |-> i % 2]

\* (value & (static_cast<uint64_t>(1) << bit_position)) != 0
BitOf(value, bit_position) == value[bit_position + 1] = 1

\* result <<= 1; if (bit) result |= 1;  on 64 bits, the top bit falls off
ShiftInBit(result, bit) ==
    <<IF bit THEN 1 ELSE 0>> \o SubSeq(result, 1, 63)

\* the members of a BitVector: std::vector<uint8_t> data_, size_t bit_count_
BitVectors == [data_ : Seq(0..255), bit_count_ : Nat]

\* BitVector(): no bytes, no bits
EmptyBitVector == [data_ |-> <<>>, bit_count_ |-> 0]

\* BitVector::reserve: zero bytes are pushed until there are enough
reserve(bv, capacity) ==
    LET required_bytes == (capacity + 7) \div 8
    IN  IF Len(bv.data_) >= required_bytes THEN bv
        ELSE [bv EXCEPT !.data_ =
                 bv.data_ \o [i \in 1..(required_bytes - Len(bv.data_)) |-> 0]]

\* byte | (1 << (7 - bit_offset))
SetBitOfByte(byte, bit_offset) ==
    IF (byte \div (2 ^ (7 - bit_offset))) % 2 = 1 THEN byte
    ELSE byte + 2 ^ (7 - bit_offset)

\* BitVector::append_bit
append_bit(bv, bit) ==
    LET grown == IF bv.bit_count_ >= Len(bv.data_) * 8
                 THEN Append(bv.data_, 0) ELSE bv.data_
        byte_index == bv.bit_count_ \div 8
        bit_offset == bv.bit_count_ % 8
    IN  [data_ |-> IF bit
                   THEN [grown EXCEPT ![byte_index + 1] =
                            SetBitOfByte(grown[byte_index + 1], bit_offset)]
                   ELSE grown,
         bit_count_ |-> bv.bit_count_ + 1]

\* BitVector::get_bit: ok is false where it throws out_of_range
get_bit(bv, index) ==
    IF index >= bv.bit_count_ THEN [ok |-> FALSE, bit |-> FALSE]
    ELSE LET byte_index == index \div 8
             bit_offset == index % 8
         IN  [ok |-> TRUE,
              bit |-> (bv.data_[byte_index + 1] \div (2 ^ (7 - bit_offset))) % 2 = 1]

\* the iterations lo .. hi - 1 of the loop of get_uint, in order, from the
\* result so far; the range is halved so that the evaluation stays shallow
GetUintRange(bv, start_index, lo, hi, result) ==
    LET Run[a \in [lo : Nat, hi : Nat, result : Seq({0, 1})]] ==
            IF a.hi <= a.lo THEN a.result
            ELSE IF a.hi = a.lo + 1
                 THEN ShiftInBit(a.result, get_bit(bv, start_index + a.lo).bit)
                 ELSE LET mid == (a.lo + a.hi) \div 2
                      IN  Run[[lo |-> mid, hi |-> a.hi,
                               result |-> Run[[lo |-> a.lo, hi |-> mid,
                                               result |-> a.result]]]]
    IN  Run[[lo |-> lo, hi |-> hi, result |-> result]]

\* BitVector::get_uint on the bytes: ok is false where it throws
BitVector_get_uint(bv, start_index, bit_count) ==
    IF bit_count > 64 \/ start_index + bit_count > bv.bit_count_
    THEN [ok |-> FALSE, value |-> Zero64]
    ELSE [ok |-> TRUE, value |-> GetUintRange(bv, start_index, 0, bit_count, Zero64)]

\* the iterations lo .. hi - 1 of the loop of append_uint, in order, from the
\* vector so far; the range is halved so that the evaluation stays shallow
AppendUintRange(bv, value, bit_count, lo, hi) ==
    LET Run[a \in [lo : Nat, hi : Nat, bv : BitVectors]] ==
            IF a.hi <= a.lo THEN a.bv
            ELSE IF a.hi = a.lo + 1
                 THEN LET bit_position == bit_count - 1 - a.lo
                      IN  append_bit(a.bv, BitOf(value, bit_position))
                 ELSE LET mid == (a.lo + a.hi) \div 2
                      IN  Run[[lo |-> mid, hi |-> a.hi,
                               bv |-> Run[[lo |-> a.lo, hi |-> mid,
                                           bv |-> a.bv]]]]
    IN  Run[[lo |-> lo, hi |-> hi, bv |-> bv]]

\* append_uint that starts with the least significant bit
append_uint_lsb_first(bv, value, bit_count) ==
    LET mirrored == [i \in 1..64 |-> IF i <= bit_count
                                     THEN value[bit_count + 1 - i] ELSE 0]
    IN  IF bit_count > 64 THEN [ok |-> FALSE, bv |-> bv]
        ELSE [ok |-> TRUE,
              bv |-> AppendUintRange(reserve(bv, bv.bit_count_ + bit_count),
                                     mirrored, bit_count, 0, bit_count)]

\* BitVector::append_uint: ok is false where it throws
append_uint(bv, value, bit_count) ==
    IF bit_count > 64 THEN [ok |-> FALSE, bv |-> bv]
    ELSE [ok |-> TRUE,
          bv |-> AppendUintRange(reserve(bv, bv.bit_count_ + bit_count),
                                 value, bit_count, 0, bit_count)]

\* a vector of n bits 1, 0, 1, 0, .. made by append_bit
RECURSIVE PrefixOf(_)
PrefixOf(n) ==
    IF n = 0 THEN EmptyBitVector ELSE append_bit(PrefixOf(n - 1), n % 2 = 1)

Values64 ==
    {Zero64, AllOnes64, Alternating64}
    \cup {OneAt(p) : p \in {0, 7, 8, 31, 32, 63}}

InitBits ==
    /\ Constructed(DefaultTimeout, DefaultMaxMessages)
    /\ last_error = "NONE"
    /\ \E n \in 0..MaxPrefix, value \in Values64, bit_count \in 0..65 :
          scenario = [stage |-> "start", bv |-> PrefixOf(n), value |-> value,
                      bit_count |-> bit_count, start_index |-> n,
                      result |-> [ok |-> FALSE, value |-> Zero64]]

AppendUint ==
    /\ scenario.stage = "start"
    /\ LET r == append_uint(scenario.bv, scenario.value, scenario.bit_count)
       IN  scenario' = [scenario EXCEPT !.stage = IF r.ok THEN "appended"
                                                  ELSE "thrown",
                                        !.bv = r.bv]
    /\ last' = LastOf("append_uint", {})
    /\ UNCHANGED <<messages, timeout_, max_messages_, node_count, now, ub,
                   owner, accepted_at, calls, last_error>>

GetUint ==
    /\ scenario.stage = "appended"
    /\ scenario' = [scenario EXCEPT
                      !.stage = "read",
                      !.result = BitVector_get_uint(scenario.bv,
                                    scenario.start_index, scenario.bit_count)]
    /\ last' = LastOf("get_uint", {})
    /\ UNCHANGED <<messages, timeout_, max_messages_, node_count, now, ub,
                   owner, accepted_at, calls, last_error>>

NextBits == AppendUint \/ GetUint

SpecBits == InitBits /\ [][NextBits]_vars

-----------------------------------------------------------------------------
(* MeteorologicalData: the air pressure, surface current, wave and swell   *)
(* members with their setters and getters, to_bits and the constructor     *)
(* from bits.  A float argument or result is written in tenths.            *)

MaxSets == 3           \* at most MaxSets setter calls on one object

uint16(v) == v % 65536

\* append_uint(value, bit_count) as the bits it appends, first bit first
UintBits(value, bit_count) ==
    [i \in 1..bit_count |-> (value \div (2 ^ (bit_count - i))) % 2]

\* a member the constructor from bits has not assigned
Indeterminate == -1000000

\* MeteorologicalData(latitude, longitude, timestamp): nothing is available
NewMeteorologicalData ==
    [air_pressure_available_ |-> FALSE, air_pressure_ |-> 0,
     surface_current_available_ |-> FALSE,
     surface_current_speed_ |-> 0, surface_current_direction_ |-> 0,
     wave_available_ |-> FALSE,
     wave_height_ |-> 0, wave_period_ |-> 0, wave_direction_ |-> 0,
     swell_available_ |-> FALSE,
     swell_height_ |-> 0, swell_period_ |-> 0, swell_direction_ |-> 0]

set_air_pressure(m, pressure) ==
    IF pressure < 0 THEN [m EXCEPT !.air_pressure_available_ = FALSE]
    ELSE [m EXCEPT !.air_pressure_available_ = TRUE,
                   !.air_pressure_ = uint16(pressure)]

set_surface_current_speed(m, speed) ==
    IF speed < 0 THEN [m EXCEPT !.surface_current_available_ = FALSE]
    ELSE [m EXCEPT !.surface_current_available_ = TRUE,
                   !.surface_current_speed_ = uint16(speed)]

set_surface_current_direction(m, direction) ==
    IF direction < 0 \/ direction > 359
    THEN [m EXCEPT !.surface_current_available_ = FALSE]
    ELSE [m EXCEPT !.surface_current_available_ = TRUE,
                   !.surface_current_direction_ = uint16(direction)]

set_wave_height(m, height) ==
    IF height < 0 THEN [m EXCEPT !.wave_available_ = FALSE]
    ELSE [m EXCEPT !.wave_available_ = TRUE, !.wave_height_ = uint8(height)]

set_wave_period(m, period) ==
    IF period < 0 THEN [m EXCEPT !.wave_available_ = FALSE]
    ELSE [m EXCEPT !.wave_available_ = TRUE, !.wave_period_ = uint8(period)]

set_wave_direction(m, direction) ==
    IF direction < 0 \/ direction > 359
    THEN [m EXCEPT !.wave_available_ = FALSE]
    ELSE [m EXCEPT !.wave_available_ = TRUE,
                   !.wave_direction_ = uint16(direction)]

set_swell_height(m, height) ==
    IF height < 0 THEN [m EXCEPT !.swell_available_ = FALSE]
    ELSE [m EXCEPT !.swell_available_ = TRUE, !.swell_height_ = uint8(height)]

set_swell_period(m, period) ==
    IF period < 0 THEN [m EXCEPT !.swell_available_ = FALSE]
    ELSE [m EXCEPT !.swell_available_ = TRUE, !.swell_period_ = uint8(period)]

set_swell_direction(m, direction) ==
    IF direction < 0 \/ direction > 359
    THEN [m EXCEPT !.swell_available_ = FALSE]
    ELSE [m EXCEPT !.swell_available_ = TRUE,
                   !.swell_direction_ = uint16(direction)]

\* the setters by name
MetSetters == {"set_air_pressure", "set_surface_current_speed", "set_surface_current_direction", "set_wave_height", "set_wave_period", "set_wave_direction", "set_swell_height", "set_swell_period", "set_swell_direction"}

SetterOf(name, m, v) ==
    CASE name = "set_air_pressure" -> set_air_pressure(m, v)
      [] name = "set_surface_current_speed" -> set_surface_current_speed(m, v)
      [] name = "set_surface_current_direction" -> set_surface_current_direction(m, v)
      [] name = "set_wave_height" -> set_wave_height(m, v)
      [] name = "set_wave_period" -> set_wave_period(m, v)
      [] name = "set_wave_direction" -> set_wave_direction(m, v)
      [] name = "set_swell_height" -> set_swell_height(m, v)
      [] name = "set_swell_period" -> set_swell_period(m, v)
      [] name = "set_swell_direction" -> set_swell_direction(m, v)

\* the getters: what each reports, the not-available value included
get_air_pressure(m) ==
    IF ~m.air_pressure_available_ THEN -1 ELSE m.air_pressure_
get_surface_current_speed(m) ==
    IF ~m.surface_current_available_ THEN -10 ELSE m.surface_current_speed_
get_surface_current_direction(m) ==
    IF ~m.surface_current_available_ THEN -1 ELSE m.surface_current_direction_
get_wave_height(m) ==
    IF ~m.wave_available_ THEN -10 ELSE m.wave_height_
get_wave_period(m) ==
    IF ~m.wave_available_ THEN -1 ELSE m.wave_period_
get_wave_direction(m) ==
    IF ~m.wave_available_ THEN -1 ELSE m.wave_direction_
get_swell_height(m) ==
    IF ~m.swell_available_ THEN -10 ELSE m.swell_height_
get_swell_period(m) ==
    IF ~m.swell_available_ THEN -1 ELSE m.swell_period_
get_swell_direction(m) ==
    IF ~m.swell_available_ THEN -1 ELSE m.swell_direction_

\* the field a setter is for |-> whether its getter reports a value
Reported(m) ==
    [set_air_pressure |-> get_air_pressure(m) # -1,
     set_surface_current_speed |-> get_surface_current_speed(m) # -10,
     set_surface_current_direction |-> get_surface_current_direction(m) # -1,
     set_wave_height |-> get_wave_height(m) # -10,
     set_wave_period |-> get_wave_period(m) # -1,
     set_wave_direction |-> get_wave_direction(m) # -1,
     set_swell_height |-> get_swell_height(m) # -10,
     set_swell_period |-> get_swell_period(m) # -1,
     set_swell_direction |-> get_swell_direction(m) # -1]

\* a field of to_bits: the value when available, else the not-available code
FieldBits(available, value, not_available, bit_count) ==
    UintBits(IF available THEN value ELSE not_available, bit_count)

\* MeteorologicalData::to_bits.  Position and time are those of an object
\* made at latitude 0, longitude 0 on day 15 at 12:30; the members that have
\* no setter above stay not available.
MeteorologicalData_to_bits(m) ==
    UintBits(0, 24) \o UintBits(0, 25)
    \o UintBits(15, 5) \o UintBits(12, 5) \o UintBits(30, 6)
    \o UintBits(1023, 10) \o UintBits(1023, 10) \o UintBits(511, 9)
    \o UintBits(1024, 11) \o UintBits(127, 7) \o UintBits(1024, 11)
    \o FieldBits(m.air_pressure_available_, m.air_pressure_, 511, 9)
    \o UintBits(3, 2) \o UintBits(255, 8) \o UintBits(2048, 12) \o UintBits(3, 2)
    \o FieldBits(m.surface_current_available_, m.surface_current_speed_, 255, 8)
    \o FieldBits(m.surface_current_available_, m.surface_current_direction_, 511, 9)
    \o FieldBits(m.wave_available_, m.wave_height_, 255, 8)
    \o FieldBits(m.wave_available_, m.wave_period_, 63, 6)
    \o FieldBits(m.wave_available_, m.wave_direction_, 511, 9)
    \o FieldBits(m.swell_available_, m.swell_height_, 255, 8)
    \o FieldBits(m.swell_available_, m.swell_period_, 63, 6)
    \o FieldBits(m.swell_available_, m.swell_direction_, 511, 9)
    \o UintBits(1024, 11) \o UintBits(7, 3) \o UintBits(511, 9) \o UintBits(3, 2)

\* a member read by the constructor from bits: assigned unless the field
\* holds the not-available code
ReadField(bits, bit_pos, bit_count, not_available) ==
    LET value == get_uint(bits, bit_pos, bit_count)
    IN  [available |-> value # not_available,
         value |-> IF value # not_available THEN value ELSE Indeterminate]

\* MeteorologicalData::MeteorologicalData(const BitVector&)
MeteorologicalData_from_bits(bits) ==
    LET air_pressure == ReadField(bits, 123, 9, 511)
        surface_current_speed == ReadField(bits, 156, 8, 255)
        surface_current_direction == ReadField(bits, 164, 9, 511)
        wave_height == ReadField(bits, 173, 8, 255)
        wave_period == ReadField(bits, 181, 6, 63)
        wave_direction == ReadField(bits, 187, 9, 511)
        swell_height == ReadField(bits, 196, 8, 255)
        swell_period == ReadField(bits, 204, 6, 63)
        swell_direction == ReadField(bits, 210, 9, 511)
    IN  [air_pressure_available_ |-> air_pressure.available,
         air_pressure_ |-> air_pressure.value,
         surface_current_available_ |->
             surface_current_speed.available \/ surface_current_direction.available,
         surface_current_speed_ |-> surface_current_speed.value,
         surface_current_direction_ |-> surface_current_direction.value,
         wave_available_ |-> \/ wave_height.available \/ wave_period.available
                             \/ wave_direction.available,
         wave_height_ |-> wave_height.value,
         wave_period_ |-> wave_period.value,
         wave_direction_ |-> wave_direction.value,
         swell_available_ |-> \/ swell_height.available \/ swell_period.available
                              \/ swell_direction.available,
         swell_height_ |-> swell_height.value,
         swell_period_ |-> swell_period.value,
         swell_direction_ |-> swell_direction.value]

\* arguments of the setters: invalid ones, and values of the field's domain
SetterArguments(name) ==
    CASE name = "set_air_pressure" -> {-1, 500, 1012}
      [] name \in {"set_surface_current_speed", "set_wave_height", "set_swell_height"} -> {-10, 25}
      [] name \in {"set_wave_period", "set_swell_period"} -> {-1, 8}
      [] OTHER -> {-1, 360, 90}

InitMet ==
    /\ Constructed(DefaultTimeout, DefaultMaxMessages)
    /\ last_error = "NONE"
    /\ scenario = [stage |-> "object", met |-> NewMeteorologicalData,
                   argument |-> 0, decoded |-> NewMeteorologicalData]

\* one setter call on the object
MetSet(name, v) ==
    /\ scenario.stage = "object"
    /\ calls < MaxSets
    /\ calls' = calls + 1
    /\ scenario' = [scenario EXCEPT !.met = SetterOf(name, scenario.met, v),
                                    !.argument = v]
    /\ last' = LastOf(name, {})
    /\ UNCHANGED <<messages, timeout_, max_messages_, node_count, now, ub,
                   owner, accepted_at, last_error>>

\* data2 = MeteorologicalData(data.to_bit_vector())
MetRoundTrip ==
    /\ scenario.stage = "object"
    /\ scenario' = [scenario EXCEPT
                      !.stage = "decoded",
                      !.decoded = MeteorologicalData_from_bits(
                                     MeteorologicalData_to_bits(scenario.met))]
    /\ last' = LastOf("to_bit_vector", {})
    /\ UNCHANGED <<messages, timeout_, max_messages_, node_count, now, ub,
                   owner, accepted_at, calls, last_error>>

NextMet ==
    \/ \E name \in MetSetters : \E v \in SetterArguments(name) : MetSet(name, v)
    \/ MetRoundTrip

SpecMet == InitMet /\ [][NextMet]_vars

-----------------------------------------------------------------------------
(* BitVector text and armor: append_string / get_string, to_nmea_payload /  *)
(* BitVector(payload), on the bits of the vector                            *)

MaxText == 3           \* texts of up to MaxText characters
MaxBits == 8           \* bit buffers of up to MaxBits bits

\* BitVector::encode_ascii
encode_ascii(c) ==
    IF c = 64 THEN 0
    ELSE IF c >= 65 /\ c <= 90 THEN c - 64
    ELSE IF c >= 91 /\ c <= 95 THEN c - 64
    ELSE IF c >= 32 /\ c <= 63 THEN c
    ELSE 0

\* BitVector::decode_ascii
decode_ascii(value) ==
    IF value = 0 THEN 64
    ELSE IF value >= 1 /\ value <= 31 THEN value + 64
    ELSE IF value >= 32 /\ value <= 63 THEN value
    ELSE 63

\* BitVector::append_string: ok is false where it throws
append_string(bits, value, bit_count) ==
    LET max_chars == bit_count \div 6
        char_value(i) == IF i < Len(value) THEN encode_ascii(value[i + 1]) ELSE 32
    IN  IF bit_count % 6 # 0 \/ Len(value) > max_chars
        THEN [ok |-> FALSE, bits |-> bits]
        ELSE [ok |-> TRUE,
              bits |-> bits \o [k \in 1..bit_count |->
                          UintBits(char_value((k - 1) \div 6), 6)[((k - 1) % 6) + 1]]]

\* BitVector::get_string: the characters other than '@', in order
get_string(bits, start_index, bit_count) ==
    LET char_count == bit_count \div 6
        c(i) == decode_ascii(uint8(get_uint(bits, start_index + i * 6, 6)))
        kept == {i \in 0..(char_count - 1) : c(i) # 64}
        \* the i-th kept character, i from 1
        nth(i) == CHOOSE j \in kept : Cardinality({l \in kept : l < j}) = i - 1
    IN  IF bit_count % 6 # 0 \/ start_index + bit_count > Len(bits)
        THEN [ok |-> FALSE, text |-> <<>>]
        ELSE [ok |-> TRUE, text |-> [i \in 1..Cardinality(kept) |-> c(nth(i))]]

\* n bits already in the vector: 1, 0, 1, 0, ..
PrefixBits(n) == [i \in 1..n |-> i % 2]

\* characters of the 6-bit alphabet: @ A Z _ blank ?
TextChars == {64, 65, 90, 95, 32, 63}

Texts == UNION {[1..n -> TextChars] : n \in 0..MaxText}

InitString ==
    /\ Constructed(DefaultTimeout, DefaultMaxMessages)
    /\ last_error = "NONE"
    /\ \E s \in Texts, n \in {0, 5} :
          scenario = [stage |-> "start", text |-> s, bits |-> PrefixBits(n),
                      start_index |-> n, result |-> [ok |-> FALSE, text |-> <<>>]]

\* bits.append_string(s, 6 * s.length())
AppendString ==
    /\ scenario.stage = "start"
    /\ LET r == append_string(scenario.bits, scenario.text, 6 * Len(scenario.text))
       IN  scenario' = [scenario EXCEPT !.stage = IF r.ok THEN "appended" ELSE "thrown",
                                        !.bits = r.bits]
    /\ last' = LastOf("append_string", {})
    /\ UNCHANGED <<messages, timeout_, max_messages_, node_count, now, ub,
                   owner, accepted_at, calls, last_error>>

\* bits.get_string(start, 6 * s.length()) over the bits just appended
GetString ==
    /\ scenario.stage = "appended"
    /\ scenario' = [scenario EXCEPT
                      !.stage = "read",
                      !.result = get_string(scenario.bits, scenario.start_index,
                                            6 * Len(scenario.text))]
    /\ last' = LastOf("get_string", {})
    /\ UNCHANGED <<messages, timeout_, max_messages_, node_count, now, ub,
                   owner, accepted_at, calls, last_error>>

NextString == AppendString \/ GetString

SpecString == InitString /\ [][NextString]_vars

\* to_nmea_payload that pads a short last group in front
to_nmea_payload_pad_in_front(bits) ==
    [k \in 1..((Len(bits) + 5) \div 6) |->
        LET i == 6 * (k - 1)
            bits_remaining == IF Len(bits) - i < 6 THEN Len(bits) - i ELSE 6
            value == uint8(get_uint(bits, i, bits_remaining))
        IN  IF value < 40 THEN value + 48 ELSE value - 40 + 96]

\* BitVector::to_nmea_payload: one character per six bits, a short last
\* group shifted up
to_nmea_payload(bits) ==
    [k \in 1..((Len(bits) + 5) \div 6) |->
        LET i == 6 * (k - 1)
            bits_remaining == IF Len(bits) - i < 6 THEN Len(bits) - i ELSE 6
            value == uint8(get_uint(bits, i, bits_remaining)
                              * 2 ^ (6 - bits_remaining))
        IN  IF value < 40 THEN value + 48 ELSE value - 40 + 96]

\* the fill bits AISMessage::to_nmea declares for a buffer of this size
DeclaredFillBits(size) == uint8((6 - (size % 6)) % 6)

BitBuffers == UNION {[1..n -> {0, 1}] : n \in 0..MaxBits}

InitPayload ==
    /\ Constructed(DefaultTimeout, DefaultMaxMessages)
    /\ last_error = "NONE"
    /\ \E b \in BitBuffers :
          scenario = [stage |-> "start", buffer |-> b, payload |-> <<>>,
                      decoded |-> [ok |-> FALSE, bits |-> <<>>]]

\* payload = bits.to_nmea_payload()
ToNmeaPayload ==
    /\ scenario.stage = "start"
    /\ scenario' = [scenario EXCEPT !.stage = "armored",
                                    !.payload = to_nmea_payload(scenario.buffer)]
    /\ last' = LastOf("to_nmea_payload", {})
    /\ UNCHANGED <<messages, timeout_, max_messages_, node_count, now, ub,
                   owner, accepted_at, calls, last_error>>

\* BitVector bits2(payload)
FromNmeaPayload ==
    /\ scenario.stage = "armored"
    /\ scenario' = [scenario EXCEPT !.stage = "decoded",
                                    !.decoded = BitVectorOf(scenario.payload)]
    /\ last' = LastOf("from_nmea_payload", {})
    /\ UNCHANGED <<messages, timeout_, max_messages_, node_count, now, ub,
                   owner, accepted_at, calls, last_error>>

NextPayload == ToNmeaPayload \/ FromNmeaPayload

SpecPayload == InitPayload /\ [][NextPayload]_vars

-----------------------------------------------------------------------------
(* Typed messages: StandardPositionReportClassB (18),                       *)
(* ExtendedPositionReportClassB (19) and StaticAndVoyageData (5), each with *)
(* its setters, to_bits and its constructor from bits                       *)

MaxFieldSets == 2      \* at most MaxFieldSets setter calls on one message

SOG_NOT_AVAILABLE == 1023
LONGITUDE_NOT_AVAILABLE == 108600000
LATITUDE_NOT_AVAILABLE == 54600000
COG_NOT_AVAILABLE == 3600
HEADING_NOT_AVAILABLE == 511

\* append_bit(flag) as the bit it appends
FlagBits(flag) == <<IF flag THEN 1 ELSE 0>>

\* get_bit(index) on the bits of a vector long enough
FlagAt(bits, index) == bits[index + 1] = 1

\* append_int(value, bit_count): the low bit_count bits of the two's
\* complement of value
IntBits(value, bit_count) == UintBits(value % (2 ^ bit_count), bit_count)

\* BitVector::get_int: get_uint with the sign extended
get_int(bits, start_index, bit_count) ==
    LET value == get_uint(bits, start_index, bit_count)
        is_negative == bit_count > 0 /\ (value \div (2 ^ (bit_count - 1))) % 2 = 1
    IN  IF is_negative THEN value - 2 ^ bit_count ELSE value

\* StandardPositionReportClassB(mmsi, repeat_indicator)
NewStandardPositionReportClassB(mmsi, repeat_indicator) ==
    [message_type |-> 18,
     mmsi_ |-> mmsi, repeat_indicator_ |-> repeat_indicator,
     speed_over_ground_ |-> SOG_NOT_AVAILABLE, position_accuracy_ |-> FALSE,
     longitude_ |-> LONGITUDE_NOT_AVAILABLE, latitude_ |-> LATITUDE_NOT_AVAILABLE,
     course_over_ground_ |-> COG_NOT_AVAILABLE,
     true_heading_ |-> HEADING_NOT_AVAILABLE, timestamp_ |-> 60,
     cs_flag_ |-> TRUE, display_flag_ |-> FALSE, dsc_flag_ |-> FALSE,
     band_flag_ |-> FALSE, message_22_flag_ |-> FALSE,
     assigned_flag_ |-> FALSE, raim_flag_ |-> FALSE, radio_status_ |-> 0]

\* ExtendedPositionReportClassB(mmsi, repeat_indicator): the base, then its
\* own members
NewExtendedPositionReportClassB(mmsi, repeat_indicator) ==
    [message_type |-> 19,
     mmsi_ |-> mmsi, repeat_indicator_ |-> repeat_indicator,
     speed_over_ground_ |-> SOG_NOT_AVAILABLE, position_accuracy_ |-> FALSE,
     longitude_ |-> LONGITUDE_NOT_AVAILABLE, latitude_ |-> LATITUDE_NOT_AVAILABLE,
     course_over_ground_ |-> COG_NOT_AVAILABLE,
     true_heading_ |-> HEADING_NOT_AVAILABLE, timestamp_ |-> 60,
     cs_flag_ |-> TRUE, display_flag_ |-> FALSE, dsc_flag_ |-> FALSE,
     band_flag_ |-> FALSE, message_22_flag_ |-> FALSE,
     assigned_flag_ |-> FALSE, raim_flag_ |-> FALSE, radio_status_ |-> 0,
     vessel_name_ |-> <<>>, ship_type_ |-> 0,
     dimension_to_bow_ |-> 0, dimension_to_stern_ |-> 0,
     dimension_to_port_ |-> 0, dimension_to_starboard_ |-> 0, epfd_type_ |-> 0]

\* StaticAndVoyageData(mmsi, repeat_indicator)
NewStaticAndVoyageData(mmsi, repeat_indicator) ==
    [message_type |-> 5,
     mmsi_ |-> mmsi, repeat_indicator_ |-> repeat_indicator,
     ais_version_ |-> 0, imo_number_ |-> 0,
     call_sign_ |-> <<>>, vessel_name_ |-> <<>>, ship_type_ |-> 0,
     dimension_to_bow_ |-> 0, dimension_to_stern_ |-> 0,
     dimension_to_port_ |-> 0, dimension_to_starboard_ |-> 0,
     epfd_type_ |-> 0, eta_month_ |-> 0, eta_day_ |-> 0,
     eta_hour_ |-> 24, eta_minute_ |-> 60, draught_ |-> 0,
     destination_ |-> <<>>, dte_flag_ |-> FALSE]

\* StandardPositionReportClassB::set_speed_over_ground, sog in tenths of a knot
set_speed_over_ground(m, sog) ==
    [m EXCEPT !.speed_over_ground_ =
        IF sog < 0 THEN SOG_NOT_AVAILABLE ELSE IF sog > 1022 THEN 1022 ELSE uint16(sog)]

set_position_accuracy(m, accuracy) == [m EXCEPT !.position_accuracy_ = accuracy]

\* StandardPositionReportClassB::set_longitude, longitude in 1/600000 degree
set_longitude(m, longitude) ==
    [m EXCEPT !.longitude_ =
        IF longitude < -108000000 \/ longitude > 108000000
        THEN LONGITUDE_NOT_AVAILABLE ELSE longitude]

\* StandardPositionReportClassB::set_latitude, latitude in 1/600000 degree
set_latitude(m, latitude) ==
    [m EXCEPT !.latitude_ =
        IF latitude < -54000000 \/ latitude > 54000000
        THEN LATITUDE_NOT_AVAILABLE ELSE latitude]

\* StandardPositionReportClassB::set_course_over_ground, cog in tenths of a degree
set_course_over_ground(m, cog) ==
    [m EXCEPT !.course_over_ground_ =
        IF cog < 0 \/ cog >= 3600 THEN COG_NOT_AVAILABLE ELSE uint16(cog)]

set_true_heading(m, heading) ==
    [m EXCEPT !.true_heading_ =
        IF heading > 359 /\ heading # HEADING_NOT_AVAILABLE
        THEN HEADING_NOT_AVAILABLE ELSE heading]

set_timestamp(m, timestamp) ==
    [m EXCEPT !.timestamp_ =
        IF timestamp > 59 /\ timestamp \notin {60, 61, 62, 63} THEN 60 ELSE timestamp]

set_cs_flag(m, cs_flag) == [m EXCEPT !.cs_flag_ = cs_flag]

set_display_flag(m, display_flag) == [m EXCEPT !.display_flag_ = display_flag]

set_dsc_flag(m, dsc_flag) == [m EXCEPT !.dsc_flag_ = dsc_flag]

set_band_flag(m, band_flag) == [m EXCEPT !.band_flag_ = band_flag]

set_message_22_flag(m, message_22_flag) == [m EXCEPT !.message_22_flag_ = message_22_flag]

set_assigned_flag(m, assigned_flag) == [m EXCEPT !.assigned_flag_ = assigned_flag]

set_raim_flag(m, raim_flag) == [m EXCEPT !.raim_flag_ = raim_flag]

set_radio_status(m, radio_status) == [m EXCEPT !.radio_status_ = radio_status]

\* set_vessel_name of ExtendedPositionReportClassB and of StaticAndVoyageData
set_vessel_name(m, name) == [m EXCEPT !.vessel_name_ = name]

\* set_ship_type of ExtendedPositionReportClassB and of StaticAndVoyageData
set_ship_type(m, type) == [m EXCEPT !.ship_type_ = uint8(type)]

\* set_ship_dimensions of ExtendedPositionReportClassB and of StaticAndVoyageData
set_ship_dimensions(m, to_bow, to_stern, to_port, to_starboard) ==
    [m EXCEPT !.dimension_to_bow_ = uint16(to_bow),
              !.dimension_to_stern_ = uint16(to_stern),
              !.dimension_to_port_ = uint8(to_port),
              !.dimension_to_starboard_ = uint8(to_starboard)]

\* ExtendedPositionReportClassB::set_epfd_type
Extended_set_epfd_type(m, type) == [m EXCEPT !.epfd_type_ = uint8(type)]

\* StaticAndVoyageData::set_epfd_type
Static_set_epfd_type(m, type) ==
    [m EXCEPT !.epfd_type_ = IF type > 15 THEN 0 ELSE type]

set_ais_version(m, version) ==
    [m EXCEPT !.ais_version_ = IF version > 3 THEN 0 ELSE version]

set_imo_number(m, imo) == [m EXCEPT !.imo_number_ = imo]

set_call_sign(m, call_sign) == [m EXCEPT !.call_sign_ = call_sign]

set_eta_components(m, month, day, hour, minute) ==
    [m EXCEPT !.eta_month_ = IF month > 12 THEN 0 ELSE month,
              !.eta_day_ = IF day > 31 THEN 0 ELSE day,
              !.eta_hour_ = IF hour > 23 /\ hour # 24 THEN 24 ELSE hour,
              !.eta_minute_ = IF minute > 59 /\ minute # 60 THEN 60 ELSE minute]

\* StaticAndVoyageData::set_draught, draught in tenths of a metre
set_draught(m, draught) ==
    [m EXCEPT !.draught_ =
        IF draught < 0 THEN 0 ELSE IF draught > 255 THEN 255 ELSE uint8(draught)]

set_destination(m, destination) == [m EXCEPT !.destination_ = destination]

set_dte_flag(m, dte) == [m EXCEPT !.dte_flag_ = dte]

\* StandardPositionReportClassB::to_bits
StandardPositionReportClassB_to_bits(m) ==
    [ok |-> TRUE,
     bits |-> UintBits(18, 6) \o UintBits(m.repeat_indicator_, 2)
              \o UintBits(m.mmsi_, 30) \o UintBits(0, 8)
              \o UintBits(m.speed_over_ground_, 10) \o FlagBits(m.position_accuracy_)
              \o IntBits(m.longitude_, 28) \o IntBits(m.latitude_, 27)
              \o UintBits(m.course_over_ground_, 12) \o UintBits(m.true_heading_, 9)
              \o UintBits(m.timestamp_, 6) \o UintBits(0, 2)
              \o FlagBits(m.cs_flag_) \o FlagBits(m.display_flag_)
              \o FlagBits(m.dsc_flag_) \o FlagBits(m.band_flag_)
              \o FlagBits(m.message_22_flag_) \o FlagBits(m.assigned_flag_)
              \o FlagBits(m.raim_flag_) \o UintBits(m.radio_status_, 20)]

\* a constructor from bits that threw
NoMessage == [ok |-> FALSE, message |-> <<>>]

\* StandardPositionReportClassB(bits)
StandardPositionReportClassB_from_bits(bits) ==
    IF Len(bits) < 168 \/ get_uint(bits, 0, 6) # 18 THEN NoMessage
    ELSE [ok |-> TRUE,
          message |->
            [message_type |-> 18,
             mmsi_ |-> get_uint(bits, 8, 30),
             repeat_indicator_ |-> get_uint(bits, 6, 2),
             speed_over_ground_ |-> get_uint(bits, 46, 10),
             position_accuracy_ |-> FlagAt(bits, 56),
             longitude_ |-> get_int(bits, 57, 28),
             latitude_ |-> get_int(bits, 85, 27),
             course_over_ground_ |-> get_uint(bits, 112, 12),
             true_heading_ |-> get_uint(bits, 124, 9),
             timestamp_ |-> get_uint(bits, 133, 6),
             cs_flag_ |-> FlagAt(bits, 141),
             display_flag_ |-> FlagAt(bits, 142),
             dsc_flag_ |-> FlagAt(bits, 143),
             band_flag_ |-> FlagAt(bits, 144),
             message_22_flag_ |-> FlagAt(bits, 145),
             assigned_flag_ |-> FlagAt(bits, 146),
             raim_flag_ |-> FlagAt(bits, 147),
             radio_status_ |-> get_uint(bits, 148, 20)]]

\* ExtendedPositionReportClassB::to_bits: ok is false where append_string throws
ExtendedPositionReportClassB_to_bits(m) ==
    LET head == UintBits(19, 6) \o UintBits(m.repeat_indicator_, 2)
                \o UintBits(m.mmsi_, 30) \o UintBits(0, 8)
                \o UintBits(m.speed_over_ground_, 10) \o FlagBits(m.position_accuracy_)
                \o IntBits(m.longitude_, 28) \o IntBits(m.latitude_, 27)
                \o UintBits(m.course_over_ground_, 12) \o UintBits(m.true_heading_, 9)
                \o UintBits(m.timestamp_, 6) \o UintBits(0, 4)
        named == append_string(head, m.vessel_name_, 120)
    IN  IF ~named.ok THEN [ok |-> FALSE, bits |-> head]
        ELSE [ok |-> TRUE,
              bits |-> named.bits \o UintBits(m.ship_type_, 8)
                       \o UintBits(m.dimension_to_bow_, 9)
                       \o UintBits(m.dimension_to_stern_, 9)
                       \o UintBits(m.dimension_to_port_, 6)
                       \o UintBits(m.dimension_to_starboard_, 6)
                       \o UintBits(m.epfd_type_, 4) \o FlagBits(m.raim_flag_)
                       \o FlagBits(FALSE) \o FlagBits(m.assigned_flag_)
                       \o UintBits(0, 4)]

\* ExtendedPositionReportClassB(bits): the base is built as
\* StandardPositionReportClassB(0, 0) and the members the body assigns are
\* read from the bits
ExtendedPositionReportClassB_from_bits(bits) ==
    IF Len(bits) < 308 \/ get_uint(bits, 0, 6) # 19 THEN NoMessage
    ELSE [ok |-> TRUE,
          message |->
            [NewExtendedPositionReportClassB(0, 0) EXCEPT
               !.repeat_indicator_ = get_uint(bits, 6, 2),
               !.mmsi_ = get_uint(bits, 8, 30),
               !.speed_over_ground_ = get_uint(bits, 46, 10),
               !.position_accuracy_ = FlagAt(bits, 56),
               !.longitude_ = get_int(bits, 57, 28),
               !.latitude_ = get_int(bits, 85, 27),
               !.course_over_ground_ = get_uint(bits, 112, 12),
               !.true_heading_ = get_uint(bits, 124, 9),
               !.timestamp_ = get_uint(bits, 133, 6),
               !.vessel_name_ = get_string(bits, 143, 120).text,
               !.ship_type_ = get_uint(bits, 263, 8),
               !.dimension_to_bow_ = get_uint(bits, 271, 9),
               !.dimension_to_stern_ = get_uint(bits, 280, 9),
               !.dimension_to_port_ = get_uint(bits, 289, 6),
               !.dimension_to_starboard_ = get_uint(bits, 295, 6),
               !.epfd_type_ = get_uint(bits, 301, 4),
               !.raim_flag_ = FlagAt(bits, 305),
               !.assigned_flag_ = FlagAt(bits, 307)]]

\* StaticAndVoyageData::to_bits: ok is false where append_string throws
StaticAndVoyageData_to_bits(m) ==
    LET head == UintBits(5, 6) \o UintBits(m.repeat_indicator_, 2)
                \o UintBits(m.mmsi_, 30) \o UintBits(m.ais_version_, 2)
                \o UintBits(m.imo_number_, 30)
        signed == append_string(head, m.call_sign_, 42)
        named == append_string(signed.bits, m.vessel_name_, 120)
        voyage == named.bits \o UintBits(m.ship_type_, 8)
                  \o UintBits(m.dimension_to_bow_, 9)
                  \o UintBits(m.dimension_to_stern_, 9)
                  \o UintBits(m.dimension_to_port_, 6)
                  \o UintBits(m.dimension_to_starboard_, 6)
                  \o UintBits(m.epfd_type_, 4) \o UintBits(m.eta_month_, 4)
                  \o UintBits(m.eta_day_, 5) \o UintBits(m.eta_hour_, 5)
                  \o UintBits(m.eta_minute_, 6) \o UintBits(m.draught_, 8)
        bound == append_string(voyage, m.destination_, 120)
    IN  IF ~signed.ok THEN [ok |-> FALSE, bits |-> head]
        ELSE IF ~named.ok THEN [ok |-> FALSE, bits |-> signed.bits]
        ELSE IF ~bound.ok THEN [ok |-> FALSE, bits |-> voyage]
        ELSE [ok |-> TRUE, bits |-> bound.bits \o FlagBits(m.dte_flag_) \o FlagBits(FALSE)]

\* StaticAndVoyageData(bits)
StaticAndVoyageData_from_bits(bits) ==
    IF Len(bits) < 423 \/ get_uint(bits, 0, 6) # 5 THEN NoMessage
    ELSE [ok |-> TRUE,
          message |->
            [message_type |-> 5,
             repeat_indicator_ |-> get_uint(bits, 6, 2),
             mmsi_ |-> get_uint(bits, 8, 30),
             ais_version_ |-> get_uint(bits, 38, 2),
             imo_number_ |-> get_uint(bits, 40, 30),
             call_sign_ |-> get_string(bits, 70, 42).text,
             vessel_name_ |-> get_string(bits, 112, 120).text,
             ship_type_ |-> get_uint(bits, 232, 8),
             dimension_to_bow_ |-> get_uint(bits, 240, 9),
             dimension_to_stern_ |-> get_uint(bits, 249, 9),
             dimension_to_port_ |-> get_uint(bits, 258, 6),
             dimension_to_starboard_ |-> get_uint(bits, 264, 6),
             epfd_type_ |-> get_uint(bits, 270, 4),
             eta_month_ |-> get_uint(bits, 274, 4),
             eta_day_ |-> get_uint(bits, 278, 5),
             eta_hour_ |-> get_uint(bits, 283, 5),
             eta_minute_ |-> get_uint(bits, 288, 6),
             draught_ |-> get_uint(bits, 294, 8),
             destination_ |-> get_string(bits, 302, 120).text,
             dte_flag_ |-> FlagAt(bits, 422)]]

\* to_bits of the message's class
to_bits(m) ==
    CASE m.message_type = 18 -> StandardPositionReportClassB_to_bits(m)
      [] m.message_type = 19 -> ExtendedPositionReportClassB_to_bits(m)
      [] m.message_type = 5 -> StaticAndVoyageData_to_bits(m)

\* the constructor from bits of the class of message_type
MessageFromBits(message_type, bits) ==
    CASE message_type = 18 -> StandardPositionReportClassB_from_bits(bits)
      [] message_type = 19 -> ExtendedPositionReportClassB_from_bits(bits)
      [] message_type = 5 -> StaticAndVoyageData_from_bits(bits)

\* a text of 20 characters, the width of a name field: ABCDEFGHIJKLMNOPQRST
FullName == [i \in 1..20 |-> 64 + i]

\* a text of 7 characters, the width of the call sign field: ABCDEFG
FullCallSign == [i \in 1..7 |-> 64 + i]

\* the text AB
ShortText == <<65, 66>>

\* the setters of the position part of the class B reports, with in-domain
\* arguments
PositionSetterCalls ==
    {<<"set_speed_over_ground", 105>>, <<"set_position_accuracy", TRUE>>,
     <<"set_longitude", 27300000>>, <<"set_longitude", -27300000>>,
     <<"set_latitude", -18120000>>, <<"set_course_over_ground", 2375>>,
     <<"set_true_heading", 235>>, <<"set_timestamp", 45>>,
     <<"set_assigned_flag", TRUE>>, <<"set_raim_flag", TRUE>>}

\* the setters of the flags and of the radio status of the class B reports
RadioSetterCalls ==
    {<<"set_cs_flag", FALSE>>, <<"set_display_flag", TRUE>>,
     <<"set_dsc_flag", TRUE>>, <<"set_band_flag", TRUE>>,
     <<"set_message_22_flag", TRUE>>, <<"set_radio_status", 74565>>}

\* the setters ExtendedPositionReportClassB adds
ExtendedSetterCalls ==
    {<<"set_vessel_name", ShortText>>, <<"set_vessel_name", FullName>>,
     <<"set_ship_type", 70>>, <<"set_ship_dimensions", <<100, 50, 10, 15>>>>,
     <<"Extended_set_epfd_type", 1>>}

\* the setters of StaticAndVoyageData
StaticSetterCalls ==
    {<<"set_ais_version", 2>>, <<"set_imo_number", 9876543>>,
     <<"set_call_sign", ShortText>>, <<"set_call_sign", FullCallSign>>,
     <<"set_vessel_name", ShortText>>, <<"set_vessel_name", FullName>>,
     <<"set_ship_type", 70>>, <<"set_ship_dimensions", <<100, 50, 10, 15>>>>,
     <<"Static_set_epfd_type", 1>>, <<"set_eta_components", <<5, 15, 14, 30>>>>,
     <<"set_draught", 58>>, <<"set_destination", ShortText>>,
     <<"set_destination", FullName>>, <<"set_dte_flag", TRUE>>}

\* the setter calls the class of the message has
SetterCalls(message_type) ==
    CASE message_type = 18 -> PositionSetterCalls \cup RadioSetterCalls
      [] message_type = 19 -> PositionSetterCalls \cup RadioSetterCalls
                              \cup ExtendedSetterCalls
      [] message_type = 5 -> StaticSetterCalls

\* message.name(v)
CallSetter(name, m, v) ==
    CASE name = "set_speed_over_ground" -> set_speed_over_ground(m, v)
      [] name = "set_position_accuracy" -> set_position_accuracy(m, v)
      [] name = "set_longitude" -> set_longitude(m, v)
      [] name = "set_latitude" -> set_latitude(m, v)
      [] name = "set_course_over_ground" -> set_course_over_ground(m, v)
      [] name = "set_true_heading" -> set_true_heading(m, v)
      [] name = "set_timestamp" -> set_timestamp(m, v)
      [] name = "set_cs_flag" -> set_cs_flag(m, v)
      [] name = "set_display_flag" -> set_display_flag(m, v)
      [] name = "set_dsc_flag" -> set_dsc_flag(m, v)
      [] name = "set_band_flag" -> set_band_flag(m, v)
      [] name = "set_message_22_flag" -> set_message_22_flag(m, v)
      [] name = "set_assigned_flag" -> set_assigned_flag(m, v)
      [] name = "set_raim_flag" -> set_raim_flag(m, v)
      [] name = "set_radio_status" -> set_radio_status(m, v)
      [] name = "set_vessel_name" -> set_vessel_name(m, v)
      [] name = "set_ship_type" -> set_ship_type(m, v)
      [] name = "set_ship_dimensions" -> set_ship_dimensions(m, v[1], v[2], v[3], v[4])
      [] name = "Extended_set_epfd_type" -> Extended_set_epfd_type(m, v)
      [] name = "Static_set_epfd_type" -> Static_set_epfd_type(m, v)
      [] name = "set_ais_version" -> set_ais_version(m, v)
      [] name = "set_imo_number" -> set_imo_number(m, v)
      [] name = "set_call_sign" -> set_call_sign(m, v)
      [] name = "set_eta_components" -> set_eta_components(m, v[1], v[2], v[3], v[4])
      [] name = "set_draught" -> set_draught(m, v)
      [] name = "set_destination" -> set_destination(m, v)
      [] name = "set_dte_flag" -> set_dte_flag(m, v)

\* the MMSI the messages are constructed with
SomeMmsi == 123456789

\* a message of one of the three classes, as its constructor leaves it
NewMessages ==
    {NewStandardPositionReportClassB(SomeMmsi, r) : r \in {0, 3}}
    \cup {NewExtendedPositionReportClassB(SomeMmsi, r) : r \in {0, 3}}
    \cup {NewStaticAndVoyageData(SomeMmsi, r) : r \in {0, 3}}

InitMessage ==
    /\ Constructed(DefaultTimeout, DefaultMaxMessages)
    /\ last_error = "NONE"
    /\ \E m \in NewMessages :
          scenario = [stage |-> "object", message |-> m,
                      encoded |-> [ok |-> FALSE, bits |-> <<>>],
                      decoded |-> NoMessage, lines |-> <<>>]

\* one setter call on the message
MessageSet(name, v) ==
    /\ scenario.stage = "object"
    /\ calls < MaxFieldSets
    /\ calls' = calls + 1
    /\ scenario' = [scenario EXCEPT !.message = CallSetter(name, scenario.message, v)]
    /\ last' = LastOf(name, {})
    /\ UNCHANGED <<messages, timeout_, max_messages_, node_count, now, ub,
                   owner, accepted_at, last_error>>

\* BitVector bits; message.to_bits(bits); the class's constructor on bits
MessageRoundTrip ==
    /\ scenario.stage = "object"
    /\ LET encoded == to_bits(scenario.message)
       IN  scenario' = [scenario EXCEPT
                          !.stage = "decoded",
                          !.encoded = encoded,
                          !.decoded = IF encoded.ok
                                      THEN MessageFromBits(scenario.message.message_type,
                                                           encoded.bits)
                                      ELSE NoMessage]
    /\ last' = LastOf("to_bits", {})
    /\ UNCHANGED <<messages, timeout_, max_messages_, node_count, now, ub,
                   owner, accepted_at, calls, last_error>>

\* AISMessage::to_nmea: ok is false where to_bits or the sentence throws
to_nmea(m) ==
    LET encoded == to_bits(m)
        payload == to_nmea_payload(encoded.bits)
        fill_bits == DeclaredFillBits(Len(encoded.bits))
        sentence == create_aivdm_sentence(payload, 1, 1, <<>>, CH_A, fill_bits)
    IN  IF ~encoded.ok \/ ~sentence.ok THEN [ok |-> FALSE, lines |-> <<>>]
        ELSE [ok |-> TRUE, lines |-> <<sentence.text>>]

\* lines = message.to_nmea()
MessageToNmea ==
    /\ scenario.stage = "object"
    /\ LET result == to_nmea(scenario.message)
       IN  scenario' = [scenario EXCEPT
                          !.stage = IF result.ok THEN "sentences" ELSE "thrown",
                          !.encoded = to_bits(scenario.message),
                          !.lines = result.lines]
    /\ last' = LastOf("to_nmea", {})
    /\ UNCHANGED <<messages, timeout_, max_messages_, node_count, now, ub,
                   owner, accepted_at, calls, last_error>>

NextMessage ==
    \/ \E message_type \in {5, 18, 19} : \E call \in SetterCalls(message_type) :
          /\ scenario.message.message_type = message_type
          /\ MessageSet(call[1], call[2])
    \/ MessageRoundTrip
    \/ MessageToNmea

SpecMessage == InitMessage /\ [][NextMessage]_vars

-----------------------------------------------------------------------------
(* Steps of the state machine, as seen from a pair of states *)

\* this step is an add_fragment call (the only action that counts calls)
IsAddFragmentStep == calls' = calls + 1

\* this step is a cleanup_expired call (Tick is the only other action that
\* leaves `last` alone, and it moves the clock)
IsCleanupStep == last'.op = "cleanup_expired" /\ now' = now /\ ~ub

-----------------------------------------------------------------------------
(* Claims *)

\* C1: in every reachable state the number of groups the reassembler reports
\* (get_incomplete_count) is at most the current max_messages.
C1_Capacity ==
    get_incomplete_count >= 0 /\ get_incomplete_count <= max_messages_

\* C2: when the N fragments of a group were submitted once each, in whatever
\* order, what was emitted is what submitting them in the order 1..N emits.
C2_OrderIndependent ==
    (scenario.todo = {} /\ Len(scenario.order) = scenario.fragment_count)
    => scenario.emitted = InOrderEmitted(scenario)

C2_Witness ==
    /\ scenario.todo = {}
    /\ scenario.fragment_count = 3
    /\ scenario.order = <<3, 1, 2>>
    /\ Len(scenario.emitted) = 1
    /\ scenario.fragments[1].payload # scenario.fragments[2].payload
    /\ scenario.fragments[2].payload # scenario.fragments[3].payload

\* C3: a fragment submitted under one (message_id, channel) is never stored
\* in, counted for, or emitted with a group that was created under another
\* message_id or channel.
C3_GroupIsolation ==
    [][(/\ IsAddFragmentStep
        /\ last'.accepted \/ last'.ret.kind = "bits"
        /\ last'.key \in DOMAIN owner)
       => owner[last'.key] = [message_id |-> last'.message_id,
                              channel |-> last'.channel]]_vars

\* C4: add_fragment for a slot that is already marked received changes
\* nothing (slots, received count, last_update, other groups) and emits nothing.
C4_DuplicateNoOp ==
    [][(/\ IsAddFragmentStep
        /\ last'.key \in DOMAIN messages
        /\ last'.fragment_number \in 1..Len(messages[last'.key].fragments)
        /\ messages[last'.key].fragments[last'.fragment_number].received)
       => (/\ messages' = messages
           /\ node_count' = node_count
           /\ last'.ret.kind # "bits")]_vars

C4_Witness ==
    /\ last.op = "add_fragment"
    /\ last.how = "duplicate"
    /\ last.key \in DOMAIN messages
    /\ messages[last.key].last_update < now

\* C5: a call that brings a group's received count up to its number of slots
\* returns the combined buffer, and the group is gone when the call ends.
C5_CompleteEmits ==
    (last.op = "add_fragment" /\ last.accepted)
    => IF last.key \in DOMAIN messages
       THEN messages[last.key].received_count
               < Len(messages[last.key].fragments)
       ELSE last.ret.kind = "bits"

\* C6: when add_fragment creates a group while the map already holds
\* max_messages groups, exactly one previously held group is removed, it has
\* the smallest last_update of the groups held before, and the new group is
\* in the map afterwards; when there is room no group is removed.
C6_EvictOldest ==
    [][(IsAddFragmentStep /\ last'.created)
       => LET removed == (DOMAIN messages) \ (DOMAIN messages')
          IN  IF Size(messages) >= max_messages_
              THEN /\ Cardinality(removed) = 1
                   /\ \A r \in removed : \A k \in DOMAIN messages :
                         messages[r].last_update <= messages[k].last_update
                   /\ last'.key \in DOMAIN messages'
              ELSE removed = {}]_vars

\* C7: cleanup_expired at time t removes every group with
\* last_update < t - timeout, keeps every other group unchanged, and lowers
\* the incomplete count by the number of groups removed.
C7_CleanupExpired ==
    [][IsCleanupStep
       => LET expired == {k \in DOMAIN messages :
                            messages[k].last_update < now - timeout_}
          IN  /\ \A k \in expired : k \notin DOMAIN messages'
              /\ \A k \in (DOMAIN messages) \ expired :
                    k \in DOMAIN messages' /\ messages'[k] = messages[k]
              /\ DOMAIN messages' \subseteq DOMAIN messages
              /\ get_incomplete_count' =
                    get_incomplete_count - Cardinality(expired)]_vars

C7_Witness ==
    /\ last.op = "cleanup_expired"
    /\ last.victims # {}
    /\ \E k \in DOMAIN messages : messages[k].last_update = now - timeout_

\* C8: a group's last_update is the time it last accepted a new fragment, and
\* no cleanup_expired at a time t with t - u <= timeout removes a group that
\* last accepted a fragment at u.
C8_TimeoutFromLastFragment ==
    [][/\ \A k \in DOMAIN messages' :
             messages'[k].last_update = accepted_at'[k]
       /\ IsCleanupStep
          => \A k \in DOMAIN messages :
                now - accepted_at[k] <= timeout_ => k \in DOMAIN messages']_vars

C8_Witness ==
    /\ last.op = "cleanup_expired"
    /\ timeout_ > 0
    /\ \E k \in DOMAIN messages :
          /\ messages[k].received_count = 2
          /\ accepted_at[k] = now - timeout_

\* C9: add_fragment with fragment_number outside [1, fragment_count], a
\* channel other than 'A' and 'B', or fill_bits above 5 throws and leaves
\* the reassembler as it was.
C9_InvalidRejected ==
    [][(/\ IsAddFragmentStep
        /\ \/ last'.fragment_number \notin 1..last'.fragment_count
           \/ last'.channel \notin {CH_A, CH_B}
           \/ last'.fill_bits > 5)
       => (/\ last'.ret = RetThrow
           /\ UNCHANGED <<messages, node_count, timeout_, max_messages_>>)]_vars

C9_Witness ==
    /\ last.op = "add_fragment"
    /\ last.how = "invalid_argument"
    /\ last.fill_bits > 5
    /\ messages # EmptyMap

\* what a caller can tell of the ways a parser call can end: the result, the
\* kind of last_error, and the reassembler afterwards
Observable(outcomes) ==
    {[result |-> p.result, error |-> p.error, msgs |-> p.mgr.msgs,
      count |-> p.mgr.count] : p \in outcomes}

\* C10: in every state of the parser and for every sentence, add_fragment(line)
\* and parse(line) end alike: the same result, the same kind of last_error and
\* the same reassembler afterwards.
C10_Interchangeable ==
    ~ub =>
    \A s \in Sentences :
        Observable(AISParser_add_fragment(messages, max_messages_, now, s))
        = Observable(AISParser_parse(messages, max_messages_, now, s))

\* the last call was one of the parser's entry points and it returned
IsParserCall == last.op \in {"parse", "parser_add_fragment"} /\ last.ret.kind # "crash"

\* the fragment of the last call sits in a group the reassembler still holds
\* and that still misses a fragment
FragmentHeld ==
    /\ last.key \in DOMAIN messages
    /\ last.fragment_number \in 1..Len(messages[last.key].fragments)
    /\ messages[last.key].fragments[last.fragment_number].received
    /\ messages[last.key].received_count < Len(messages[last.key].fragments)

\* C11: after a parse / add_fragment call, last_error is NONE exactly when the
\* call returned a message or its fragment is buffered in a group that is
\* still incomplete; otherwise it is the error of that call.
C11_LastError ==
    IsParserCall =>
        (last_error = "NONE" <=> (last.ret.kind = "message" \/ FragmentHeld))

\* C12: an add_fragment call with an empty group id and fragment_count = 1
\* that returns its buffer leaves the set of incomplete groups as it was: it
\* creates no group and removes none.
C12_SingleBypasses ==
    [][(/\ IsAddFragmentStep
        /\ last'.message_id = <<>>
        /\ last'.fragment_count = 1
        /\ last'.how = "emitted")
       => messages' = messages]_vars

\* a sentence with a valid checksum, seven fields and an AIS talker
IsAisLine(s) ==
    /\ validate_checksum(s)
    /\ Len(parse_fields(s)) >= 7
    /\ parse_fields(s)[1] \in {AIVDM, AIVDO}

\* the fragment information of the fields is bad: a field that is no number,
\* a fragment number outside 1..fragment count, a channel other than A and B,
\* or fill bits outside 0..5
BadFragmentInfo(fields) ==
    LET count == stoi(fields[2], 10)
        number == stoi(fields[3], 10)
        fill == stoi(fields[7], 10)
    IN  \/ ~count.ok \/ ~number.ok \/ ~fill.ok
        \/ number.value \notin 1..count.value
        \/ FirstChar(fields[5]) \notin {CH_A, CH_B}
        \/ fill.value \notin 0..5

\* C13: in every state of the parser, parse of an AIS sentence with bad
\* fragment information returns no message and leaves INVALID_FRAGMENT_INFO.
C13_FragmentInfoRejected ==
    ~ub =>
    \A s \in Sentences :
        (IsAisLine(s) /\ BadFragmentInfo(parse_fields(s))) =>
            \A p \in AISParser_parse(messages, max_messages_, now, s) :
                p.result = ResNone /\ p.error = "INVALID_FRAGMENT_INFO"

\* a bit stream long enough to carry a type code, whose code is not registered
UnsupportedType(bits) ==
    Len(bits) >= 38 /\ get_uint(bits, 0, 6) \notin RegisteredTypes

\* a well-formed single-fragment sentence without fill bits
IsSingleFragment(s) ==
    /\ IsAisLine(s) /\ ~BadFragmentInfo(parse_fields(s))
    /\ stoi(parse_fields(s)[2], 10).value = 1
    /\ stoi(parse_fields(s)[7], 10).value = 0
    /\ BitVectorOf(parse_fields(s)[6]).ok

\* C14: in every state of the parser, when the bit stream parse decodes (of
\* a single fragment, or handed over by the reassembler) starts with a type
\* code that is not registered, parse returns no message and leaves
\* UNSUPPORTED_MESSAGE_TYPE.
C14_UnsupportedType ==
    ~ub =>
    \A s \in Sentences :
        \A p \in AISParser_parse(messages, max_messages_, now, s) :
            (\/ /\ IsSingleFragment(s)
                /\ UnsupportedType(BitVectorOf(parse_fields(s)[6]).bits)
             \/ /\ p.mgr.ret.kind = "bits"
                /\ UnsupportedType(p.mgr.ret.bits))
            => (p.result = ResNone /\ p.error = "UNSUPPORTED_MESSAGE_TYPE")

\* a bit stream of 424 bits, the longest message, that starts with the code k
TypeStream(k) == Bits6(k) \o [i \in 1..418 |-> 0]

\* C15: in every state of the parser, for each of the type codes 1, 2, 3, 4,
\* 5, 6, 8, 18 and 19, from_bits of a long enough bit stream that starts with
\* the code yields a message of that type.
C15_Dispatch ==
    ~ub =>
    \A k \in {1, 2, 3, 4, 5, 6, 8, 18, 19} :
        /\ from_bits(TypeStream(k)).ok
        /\ get_uint(from_bits(TypeStream(k)).bits, 0, 6) = k

\* the decoded bits of the slots i..N, one after the other
RECURSIVE SlotBitsFrom(_, _)
SlotBitsFrom(fragments, i) ==
    IF i > Len(fragments) THEN <<>>
    ELSE BitVectorOf(fragments[i].payload).bits \o SlotBitsFrom(fragments, i + 1)

\* C16: the buffer a call emits is the decoded bits of the slots 1..N of its
\* group, one after the other, all bits of every slot but the last and the
\* bits of the last slot without its fill_bits trailing bits.
C16_CombinedBuffer ==
    last.how = "emitted" =>
        LET all == SlotBitsFrom(scenario.fragments, 1)
            last_fill == scenario.fragments[scenario.fragment_count].fill_bits
        IN  last.ret.bits = SubSeq(all, 1, Len(all) - last_fill)

C16_Witness ==
    /\ last.how = "emitted"
    /\ scenario.fragment_count = 3
    /\ scenario.fragments[1].fill_bits = 2
    /\ scenario.fragments[3].fill_bits = 2
    /\ scenario.fragments[2].payload # scenario.fragments[3].payload
    /\ Len(last.ret.bits) = 16

\* this step is a set_max_messages call on a reassembler that holds more
\* groups than the new maximum
IsShrinkStep ==
    /\ ~ub /\ now' = now /\ calls' = calls
    /\ last'.op = "set_max_messages"
    /\ Size(messages) > max_messages_'

\* C17: set_max_messages(m) on a reassembler that holds more than m groups
\* leaves exactly m groups, all of them kept as they were, and no removed
\* group was updated later than a group that was kept.
C17_SetMaxMessages ==
    [][IsShrinkStep =>
         /\ Size(messages') = max_messages_'
         /\ node_count' = max_messages_'
         /\ \A k \in DOMAIN messages' :
               k \in DOMAIN messages /\ messages'[k] = messages[k]
         /\ \A r \in (DOMAIN messages) \ (DOMAIN messages') :
               \A k \in DOMAIN messages' :
                   messages[r].last_update <= messages[k].last_update]_vars

\* two groups were held, updated at different times, and the maximum was
\* lowered to one: the older one went
C17_Witness ==
    /\ last.op = "set_max_messages"
    /\ Cardinality(last.victims) = 1
    /\ max_messages_ = 1
    /\ Size(messages) = 1
    /\ calls = 2
    /\ \E k \in DOMAIN messages : messages[k].last_update > 0

\* validate_checksum was applied to the sentence at hand
IsChecked == "sentence" \in DOMAIN scenario /\ scenario.checked # "no"

\* the line has a '*', exactly two hexadecimal digits follow it and nothing
\* else, and their value is the XOR of the characters between the start
\* delimiter and the '*'
ChecksumMatches(line) ==
    LET p == Find(line, STAR)
    IN  /\ p # 0
        /\ Len(line) = p + 2
        /\ DigitValue(line[p + 1], 16) >= 0
        /\ DigitValue(line[p + 2], 16) >= 0
        /\ 16 * DigitValue(line[p + 1], 16) + DigitValue(line[p + 2], 16)
           = calculate_checksum(SubSeq(line, 1, p - 1))

\* C18: validate_checksum answers false for every line without a '*', with
\* something else than two hexadecimal digits after it, or with a checksum
\* that is not the XOR of its characters.
C18_BadChecksumRejected ==
    (IsChecked /\ ~ChecksumMatches(scenario.sentence))
    => scenario.checked = "false"

\* the sentence at hand was made by create_aivdm_sentence or
\* create_aivdo_sentence, and validate_checksum was applied to it
IsCreatedAndChecked == IsChecked /\ scenario.created

\* C19 as stated: every sentence create_aivdm_sentence or
\* create_aivdo_sentence makes, whatever the payload and the group id, passes
\* validate_checksum.
C19_CreatedValidates ==
    IsCreatedAndChecked => scenario.checked = "true"

\* C19: a sentence create_aivdm_sentence or create_aivdo_sentence makes from
\* a payload and a group id without a '*' passes validate_checksum.
C19_CreatedValidatesNoStar ==
    (/\ IsCreatedAndChecked
     /\ Find(scenario.input.payload, STAR) = 0
     /\ Find(scenario.input.message_id, STAR) = 0)
    => scenario.checked = "true"

\* a created sentence with a one-digit checksum was validated
C19_Witness ==
    /\ IsCreatedAndChecked
    /\ scenario.op = "create_aivdo_sentence"
    /\ scenario.input.payload = P_AT
    /\ scenario.input.message_id = <<>>
    /\ scenario.input.fragment_count = 2
    /\ scenario.input.fill_bits = 5
    /\ scenario.checked = "true"

\* the low n bits of a 64-bit value
LowBits(value, n) == [i \in 1..64 |-> IF i <= n THEN value[i] ELSE 0]

\* C20: for a width n in 1..64, get_uint of the n bits that append_uint(v, n)
\* appended returns the low n bits of v, which is v when v is below 2^n.
C20_AppendGetUint ==
    (/\ "stage" \in DOMAIN scenario
     /\ scenario.stage = "read"
     /\ scenario.bit_count \in 1..64)
    => /\ scenario.result.ok
       /\ scenario.result.value = LowBits(scenario.value, scenario.bit_count)
       /\ (\A i \in (scenario.bit_count + 1)..64 : scenario.value[i] = 0)
             => scenario.result.value = scenario.value

\* 64 one-bits were appended behind three bits and read back
C20_Witness ==
    /\ "stage" \in DOMAIN scenario
    /\ scenario.stage = "read"
    /\ scenario.bit_count = 64
    /\ scenario.start_index = 3
    /\ scenario.value = AllOnes64
    /\ scenario.result.value = AllOnes64

\* the number of slots of the group a call is applied to: the group the map
\* holds under the key, or the new group of fragment_count slots
SlotsBefore ==
    IF last'.key \in DOMAIN messages
    THEN Len(messages[last'.key].fragments)
    ELSE last'.fragment_count

\* C26: in every add_fragment call that passes validation, fragment_number - 1
\* is smaller than the number of slots of the group the call is applied to.
C26_SlotInBounds ==
    [][(IsAddFragmentStep /\ last'.how # "invalid_argument")
       => last'.fragment_number - 1 < SlotsBefore]_vars

\* C27: the group removed by the capacity eviction of an add_fragment call is
\* never the group of the fragment being submitted.
C27_NoSelfEviction ==
    last.op = "add_fragment" => last.key \notin last.victims

\* every payload of the scenario is armor text, so combining cannot throw
GroupDecodable ==
    \A i \in 1..scenario.fragment_count :
        BitVectorOf(scenario.fragments[i].payload).ok

\* C28: when the fragments of a group of N >= 2 are submitted in any order
\* and with any resubmissions, no call emits before all N were submitted, and
\* from the call that supplies the last missing fragment on exactly one
\* message was emitted.
C28_ExactlyOneEmission ==
    GroupDecodable
    => Len(scenario.emitted) = (IF scenario.todo = {} THEN 1 ELSE 0)

\* a count, number or fill-bit field of the sentence is a number outside 0..255
FieldOutOfByte(fields) ==
    \E i \in {2, 3, 7} :
        stoi(fields[i], 10).ok /\ stoi(fields[i], 10).value \notin 0..255

\* C29: in every state of the parser, a sentence with a fragment count,
\* fragment number or fill-bit field outside 0..255 is rejected by parse and
\* by add_fragment: no message, no call of the reassembler, and an error.
C29_NoWrapAround ==
    ~ub =>
    \A s \in Sentences :
        (IsAisLine(s) /\ FieldOutOfByte(parse_fields(s))) =>
            \A p \in AISParser_parse(messages, max_messages_, now, s)
                     \cup AISParser_add_fragment(messages, max_messages_, now, s) :
                /\ p.result = ResNone
                /\ p.mgr.how = "no_call"
                /\ p.error # "NONE"

\* this step is a setter call on the meteorological object
IsMetSetStep == "met" \in DOMAIN scenario /\ calls' = calls + 1

\* C25: a meteorological message whose air pressure was set to a value of
\* 800..1200 hPa reports that value after to_bits and decoding of the bits.
C25_AirPressureRoundTrip ==
    (/\ "met" \in DOMAIN scenario
     /\ scenario.stage = "decoded"
     /\ get_air_pressure(scenario.met) \in 800..1200)
    => get_air_pressure(scenario.decoded) = get_air_pressure(scenario.met)

\* C30: a setter call, with a valid or an invalid value, changes whether a
\* value is reported for no field other than its own.
C30_OwnAvailability ==
    [][IsMetSetStep
       => \A name \in MetSetters \ {last'.op} :
             Reported(scenario'.met)[name] = Reported(scenario.met)[name]]_vars

\* the text without its trailing blanks
TrimTrailingSpaces(s) ==
    LET solid == {i \in 1..Len(s) : s[i] # 32}
    IN  SubSeq(s, 1, IF solid = {} THEN 0
                     ELSE CHOOSE i \in solid : \A j \in solid : j <= i)

\* C21: for a text s of characters of the 6-bit alphabet, get_string over the
\* bits that append_string(s, 6 * len(s)) appended returns s without its
\* trailing blanks.
C21_StringRoundTrip ==
    ("text" \in DOMAIN scenario /\ scenario.stage = "read")
    => /\ scenario.result.ok
       /\ scenario.result.text = TrimTrailingSpaces(scenario.text)

\* C22: decoding the armor text to_nmea_payload makes of a bit buffer b gives
\* b followed by p zero bits, where p is in 0..5 and is the number of fill
\* bits declared for the payload.
C22_PayloadRoundTrip ==
    ("buffer" \in DOMAIN scenario /\ scenario.stage = "decoded")
    => LET p == DeclaredFillBits(Len(scenario.buffer))
       IN  /\ p \in 0..5
           /\ scenario.decoded.ok
           /\ scenario.decoded.bits = scenario.buffer \o [i \in 1..p |-> 0]

\* a buffer of eight bits that ends with a one was armored in two characters
\* and decoded to twelve bits
C22_Witness ==
    /\ "buffer" \in DOMAIN scenario
    /\ scenario.stage = "decoded"
    /\ scenario.buffer = <<1, 0, 1, 1, 0, 0, 1, 1>>
    /\ Len(scenario.payload) = 2
    /\ Len(scenario.decoded.bits) = 12

\* C23: decoding the bits a message of a supported class encodes to gives a
\* message whose every field, flags and texts included, equals the original
C23_MessageRoundTrip ==
    scenario.stage = "decoded" =>
        /\ scenario.encoded.ok
        /\ scenario.decoded.ok
        /\ scenario.decoded.message = scenario.message

\* C24: every line to_nmea returns carries a payload of at most 60 characters,
\* the largest per-line maximum in use, a longer payload being spread over
\* several lines
C24_LinePayloadBounded ==
    scenario.stage = "sentences" =>
        /\ Len(scenario.lines) >= 1
        /\ \A i \in 1..Len(scenario.lines) :
              Len(parse_fields(scenario.lines[i])[6]) <= 60

====
